---- MODULE Spec2Model ----
(***************************************************************************)
(* Model of the browser utilities Util / UrlHelper / CorrelationIdHelper / *)
(* AjaxHelper (src/unnamed/part_000) and of the build script               *)
(* tools/subResourceIntegrity/generateIntegrityFile.js.                    *)
(*                                                                         *)
(* The components share no state except the anchor cache of                *)
(* UrlHelper.parseUrl, so each gets its own specification over the one     *)
(* set of variables:                                                       *)
(*   SpecStorage    local/session storage accessors of Util                *)
(*   SpecCookie     Util.canUseCookies / setCookie / deleteCookie          *)
(*   SpecUrl        UrlHelper.parseUrl and its callers                     *)
(*   SpecCorr       CorrelationIdHelper.canIncludeCorrelationHeader        *)
(*   SpecIntegrity  generateIntegrityFile.js                               *)
(*   SpecParse      UrlHelper.parseFullHost called on its own              *)
(*                                                                         *)
(* JavaScript strings that the code inspects character by character are    *)
(* tuples of one-character strings; JavaScript undefined / null / booleans *)
(* held in one slot are the strings "undefined", "null", "true", "false".  *)
(***************************************************************************)
EXTENDS Integers, Sequences, FiniteSets, TLC

VARIABLES
    \* ---- Util storage helpers -------------------------------------------
    _canUseLocalStorage,    \* Util._canUseLocalStorage: "undefined" | "true" | "false"
    _canUseSessionStorage,  \* Util._canUseSessionStorage
    localStorage,           \* content of window.localStorage: key -> value, 0 = absent
    sessionStorage,         \* content of window.sessionStorage
    stOp,                   \* the Util storage operation that ran last
    stRet,                  \* what it returned: "void" | "null" | "true" | "false" | "value" | "keys"
    stData,                 \* the value returned ("value") or the keys returned ("keys")
    stCallThrew,            \* the operation's own getItem/setItem/removeItem call threw
    stPropagated,           \* an exception left the operation
    stTouched,              \* the operation reached for window.localStorage / sessionStorage
    stUsable,               \* the operation's own call ran on a verified storage object
    stLogged,               \* message id passed to logger.throwInternal, or "none"
    localEvals,             \* how often _canUseLocalStorage was assigned from a probe
    sessionEvals,           \* how often _canUseSessionStorage was assigned from a probe
    stDisabled,             \* Util.disableStorage() has been called
    \* ---- Util cookie helpers --------------------------------------------
    _canUseCookies,           \* CoreUtils._canUseCookies: "undefined" | "true" | "false"
    _uaDisallowsSameSiteNone, \* module variable: "null" | "true" | "false"
    documentCookie,           \* the string last assigned to document.cookie
    ckOp,                     \* the cookie operation that ran last
    ckWrote,                  \* it assigned document.cookie
    ckRet,                    \* what canUseCookies returned to it
    locationProtocol,         \* getLocation().protocol, "null" when there is no location
    navigatorUA,              \* index of getNavigator().userAgent in UserAgents, 0: none
    docCookieAccess,          \* reading document.cookie: "string" | "undefined" | "throws"
    \* ---- UrlHelper ------------------------------------------------------
    _htmlAnchorIdx,           \* UrlHelper._htmlAnchorIdx
    _htmlAnchorElement,       \* UrlHelper._htmlAnchorElement: 0 (null) or an object of anchorHeap
    anchorHeap,               \* the anchor objects made so far: [href, temp]
    urlCalls,                 \* the parseUrl calls made so far: [obj returned, url passed]
    urlOp,                    \* the URL operation that ran last
    urlTarget,                \* the host it read from the anchor
    browser,                  \* "modern" | "ie" | "none" (no document.createElement)
    pageHost,                 \* the host of the page's own location
    \* ---- CorrelationIdHelper --------------------------------------------
    corrConfig,               \* canIncludeCorrelationHeader: config
    corrUrl,                  \*   requestUrl (index of Urls)
    corrCurrentHost,          \*   currentHost
    corrPc,                   \*   "idle" | "call" | "done"
    corrRet,                  \*   "none" | "true" | "false" | "emptyString" | "TypeError"
    \* ---- generateIntegrityFile.js ---------------------------------------
    igVersion,                \* package.version
    igBrowser,                \* what globby.sync("./browser/**/*.js") returns
    igSnippet,                \* what globby.sync("./snippet/**/*.js") returns
    integrityCache,           \* integrityCache: intFile -> [name, version, ext]
    igPc,                     \* "idle" | "browser" | "snippet" | "write" | "done" | "threw"
    igIdx,                    \* position of files.map in the list at hand
    igError,                  \* the Error thrown: "none" | "module" | "version"
    igLast,                   \* the file processed last: [file, names, prior (cache before)]
    igRead,                   \* what fs.readFileSync returned: inputFile -> source
    igWritten,                \* what fs.writeFileSync wrote: [file, json]
    \* ---- UrlHelper.parseFullHost called on its own ----------------------
    pfParts,                  \* the url passed, in parts: [scheme, sep, host, port, path]
    pfInclPort,               \* the inclPort passed
    pfPc,                     \* "idle" | "call" | "done"
    pfRet                     \* what parseFullHost returned

storageVars == << _canUseLocalStorage, _canUseSessionStorage, localStorage, sessionStorage,
                  stOp, stRet, stData, stCallThrew, stPropagated, stTouched, stUsable,
                  stLogged, localEvals, sessionEvals, stDisabled >>

cookieVars == << _canUseCookies, _uaDisallowsSameSiteNone, documentCookie, ckOp, ckWrote,
                 ckRet, locationProtocol, navigatorUA, docCookieAccess >>

urlVars == << _htmlAnchorIdx, _htmlAnchorElement, anchorHeap, urlCalls, urlOp, urlTarget,
              browser, pageHost >>

corrVars == << corrConfig, corrUrl, corrCurrentHost, corrPc, corrRet >>

integrityVars == << igVersion, igBrowser, igSnippet, integrityCache, igPc, igIdx, igError,
                    igLast, igRead, igWritten >>

parseVars == << pfParts, pfInclPort, pfPc, pfRet >>

vars == << storageVars, cookieVars, urlVars, corrVars, integrityVars, parseVars >>

otherThanStorage == << cookieVars, urlVars, corrVars, integrityVars, parseVars >>
otherThanCookie == << storageVars, urlVars, corrVars, integrityVars, parseVars >>
otherThanUrl == << storageVars, cookieVars, corrVars, integrityVars, parseVars >>
otherThanUrlAndCorr == << storageVars, cookieVars, integrityVars, parseVars >>
otherThanIntegrity == << storageVars, cookieVars, urlVars, corrVars, parseVars >>
otherThanParse == << storageVars, cookieVars, urlVars, corrVars, integrityVars >>

----------------------------------------------------------------------------
(* Bounds of the storage model.                                            *)
MaxKeys == 1
MaxVals == 1

\* The name under which _getVerifiedStorageObject writes its probe value.
UidKey == 0
ItemKeys == 1..MaxKeys
ItemVals == 1..MaxVals
StoreKeys == {UidKey} \cup ItemKeys
EmptyStore == [k \in StoreKeys |-> 0]

\* What the browser does with the three calls of one probe.
ProbeOutcomes == {"noGlobal", "noInst", "setThrows", "getThrows", "mismatch",
                  "removeThrows", "ok"}
\* What the browser does with the operation's own storage call.
CallOutcomes == {"ok", "throws"}

JsBool(b) == IF b THEN "true" ELSE "false"

\* The browser's answer is drawn only where the code asks the browser.
Asked(cond, answers) == IF cond THEN answers ELSE {"unasked"}

\* logger.throwInternal(severity, msgId, msg, properties) of the diagnostic
\* logger: the message is recorded by the logger and the call returns.
throwInternal(msgId) == [ logged |-> msgId, throws |-> FALSE ]

\* Util._getVerifiedStorageObject(storageType): store is the content of the
\* storage object of that type, po the browser's behaviour during the probe.
\* storage: a usable object came back; touched: getGlobalInst(...) was evaluated.
\* The probe value stays behind when getItem or removeItem throws.
_getVerifiedStorageObject(store, po) ==
    [ storage |-> (po = "ok"),
      touched |-> (po # "noGlobal"),
      store   |-> CASE po \in {"getThrows", "removeThrows"} -> [store EXCEPT ![UidKey] = 1]
                    [] po \in {"mismatch", "ok"}             -> [store EXCEPT ![UidKey] = 0]
                    [] OTHER                                 -> store ]

\* canUseLocalStorage that probes again whenever the flag is not true.
canUseLocalStorage_Reprobes(flag, store, po) ==
    IF flag # "true"
    THEN LET v == _getVerifiedStorageObject(store, po)
         IN  [ flag |-> JsBool(v.storage), store |-> v.store,
               touched |-> v.touched, evals |-> 1 ]
    ELSE [ flag |-> flag, store |-> store, touched |-> FALSE, evals |-> 0 ]

\* Util.canUseLocalStorage(): the probe runs, and the flag is assigned, only
\* while the flag is undefined.
canUseLocalStorage(flag, store, po) ==
    IF flag = "undefined"
    THEN LET v == _getVerifiedStorageObject(store, po)
         IN  [ flag |-> JsBool(v.storage), store |-> v.store,
               touched |-> v.touched, evals |-> 1 ]
    ELSE [ flag |-> flag, store |-> store, touched |-> FALSE, evals |-> 0 ]

\* Util.canUseSessionStorage()
canUseSessionStorage(flag, store, po) ==
    IF flag = "undefined"
    THEN LET v == _getVerifiedStorageObject(store, po)
         IN  [ flag |-> JsBool(v.storage), store |-> v.store,
               touched |-> v.touched, evals |-> 1 ]
    ELSE [ flag |-> flag, store |-> store, touched |-> FALSE, evals |-> 0 ]

\* Util._getLocalStorageObject(): canUseLocalStorage(), then a second
\* verification whose result is the storage object (FALSE: null).
_getLocalStorageObject(flag, store, po1, po2) ==
    LET c == canUseLocalStorage(flag, store, po1)
    IN  IF c.flag = "true"
        THEN LET v == _getVerifiedStorageObject(c.store, po2)
             IN  [ flag |-> c.flag, store |-> v.store, storage |-> v.storage,
                   touched |-> (c.touched \/ v.touched), evals |-> c.evals ]
        ELSE [ flag |-> c.flag, store |-> c.store, storage |-> FALSE,
               touched |-> c.touched, evals |-> c.evals ]

\* Util._getSessionStorageObject()
_getSessionStorageObject(flag, store, po1, po2) ==
    LET c == canUseSessionStorage(flag, store, po1)
    IN  IF c.flag = "true"
        THEN LET v == _getVerifiedStorageObject(c.store, po2)
             IN  [ flag |-> c.flag, store |-> v.store, storage |-> v.storage,
                   touched |-> (c.touched \/ v.touched), evals |-> c.evals ]
        ELSE [ flag |-> c.flag, store |-> c.store, storage |-> FALSE,
               touched |-> c.touched, evals |-> c.evals ]

\* The part of the state one storage operation reports about itself.
StReport(op, ret, data, callThrew, propagated, touched, usable, logged) ==
    /\ stOp' = op
    /\ stRet' = ret
    /\ stData' = data
    /\ stCallThrew' = callThrew
    /\ stPropagated' = propagated
    /\ stTouched' = touched
    /\ stUsable' = usable
    /\ stLogged' = logged
    /\ UNCHANGED otherThanStorage

\* What the operation that moved localEvals / sessionEvals did not touch.
LocalOnly(g) ==
    /\ localStorage' = g.store
    /\ localEvals' = localEvals + g.evals
    /\ UNCHANGED << _canUseSessionStorage, sessionStorage, sessionEvals, stDisabled >>

SessionOnly(g) ==
    /\ sessionStorage' = g.store
    /\ sessionEvals' = sessionEvals + g.evals
    /\ UNCHANGED << _canUseLocalStorage, localStorage, localEvals, stDisabled >>

\* disableStorage with the session flag forgotten.
disableStorage_LocalOnly ==
    /\ _canUseLocalStorage' = "false"
    /\ stDisabled' = TRUE
    /\ StReport("disableStorage", "void", {}, FALSE, FALSE, FALSE, FALSE, "none")
    /\ UNCHANGED << _canUseSessionStorage, localStorage, sessionStorage,
                    localEvals, sessionEvals >>

\* Util.disableStorage()
disableStorage ==
    /\ _canUseLocalStorage' = "false"
    /\ _canUseSessionStorage' = "false"
    /\ stDisabled' = TRUE
    /\ StReport("disableStorage", "void", {}, FALSE, FALSE, FALSE, FALSE, "none")
    /\ UNCHANGED << localStorage, sessionStorage, localEvals, sessionEvals >>

\* A call of Util.canUseLocalStorage()
CallCanUseLocalStorage ==
    \E po \in Asked(_canUseLocalStorage = "undefined", ProbeOutcomes) :
        LET c == canUseLocalStorage(_canUseLocalStorage, localStorage, po)
        IN  /\ _canUseLocalStorage' = c.flag
            /\ LocalOnly(c)
            /\ StReport("canUseLocalStorage", c.flag, {}, FALSE, FALSE, c.touched, FALSE, "none")

\* A call of Util.canUseSessionStorage()
CallCanUseSessionStorage ==
    \E po \in Asked(_canUseSessionStorage = "undefined", ProbeOutcomes) :
        LET c == canUseSessionStorage(_canUseSessionStorage, sessionStorage, po)
        IN  /\ _canUseSessionStorage' = c.flag
            /\ SessionOnly(c)
            /\ StReport("canUseSessionStorage", c.flag, {}, FALSE, FALSE, c.touched, FALSE, "none")

\* Util.getStorage(logger, name)
getStorage ==
    \E name \in ItemKeys,
       po1 \in Asked(_canUseLocalStorage = "undefined", ProbeOutcomes) :
    \E po2 \in Asked(canUseLocalStorage(_canUseLocalStorage, localStorage, po1).flag = "true", ProbeOutcomes) :
    \E co \in Asked(po2 = "ok", CallOutcomes) :
        LET g     == _getLocalStorageObject(_canUseLocalStorage, localStorage, po1, po2)
            threw == g.storage /\ co = "throws"
            log   == throwInternal("BrowserCannotReadLocalStorage")
            found == g.storage /\ ~threw /\ g.store[name] # 0
        IN  /\ _canUseLocalStorage' = IF threw THEN "false" ELSE g.flag
            /\ LocalOnly(g)
            /\ StReport("getStorage",
                        IF found THEN "value" ELSE "null",
                        IF found THEN {g.store[name]} ELSE {},
                        threw, threw /\ log.throws, g.touched \/ g.storage, g.storage,
                        IF threw THEN log.logged ELSE "none")

\* setStorage whose "return true" stands after the try block.
setStorage_TrueAfterCatch ==
    \E name \in ItemKeys, data \in ItemVals,
       po1 \in Asked(_canUseLocalStorage = "undefined", ProbeOutcomes) :
    \E po2 \in Asked(canUseLocalStorage(_canUseLocalStorage, localStorage, po1).flag = "true", ProbeOutcomes) :
    \E co \in Asked(po2 = "ok", CallOutcomes) :
        LET g     == _getLocalStorageObject(_canUseLocalStorage, localStorage, po1, po2)
            threw == g.storage /\ co = "throws"
            log   == throwInternal("BrowserCannotWriteLocalStorage")
            wrote == g.storage /\ ~threw
            h     == [g EXCEPT !.store = IF wrote THEN [g.store EXCEPT ![name] = data]
                                                  ELSE g.store]
        IN  /\ _canUseLocalStorage' = IF threw THEN "false" ELSE g.flag
            /\ LocalOnly(h)
            /\ StReport("setStorage", JsBool(g.storage), {},
                        threw, threw /\ log.throws, g.touched \/ g.storage, g.storage,
                        IF threw THEN log.logged ELSE "none")

\* Util.setStorage(logger, name, data)
setStorage ==
    \E name \in ItemKeys, data \in ItemVals,
       po1 \in Asked(_canUseLocalStorage = "undefined", ProbeOutcomes) :
    \E po2 \in Asked(canUseLocalStorage(_canUseLocalStorage, localStorage, po1).flag = "true", ProbeOutcomes) :
    \E co \in Asked(po2 = "ok", CallOutcomes) :
        LET g     == _getLocalStorageObject(_canUseLocalStorage, localStorage, po1, po2)
            threw == g.storage /\ co = "throws"
            log   == throwInternal("BrowserCannotWriteLocalStorage")
            wrote == g.storage /\ ~threw
            h     == [g EXCEPT !.store = IF wrote THEN [g.store EXCEPT ![name] = data]
                                                  ELSE g.store]
        IN  /\ _canUseLocalStorage' = IF threw THEN "false" ELSE g.flag
            /\ LocalOnly(h)
            /\ StReport("setStorage", JsBool(wrote), {},
                        threw, threw /\ log.throws, g.touched \/ g.storage, g.storage,
                        IF threw THEN log.logged ELSE "none")

\* Util.removeStorage(logger, name)
removeStorage ==
    \E name \in ItemKeys,
       po1 \in Asked(_canUseLocalStorage = "undefined", ProbeOutcomes) :
    \E po2 \in Asked(canUseLocalStorage(_canUseLocalStorage, localStorage, po1).flag = "true", ProbeOutcomes) :
    \E co \in Asked(po2 = "ok", CallOutcomes) :
        LET g       == _getLocalStorageObject(_canUseLocalStorage, localStorage, po1, po2)
            threw   == g.storage /\ co = "throws"
            log     == throwInternal("BrowserFailedRemovalFromLocalStorage")
            removed == g.storage /\ ~threw
            h       == [g EXCEPT !.store = IF removed THEN [g.store EXCEPT ![name] = 0]
                                                    ELSE g.store]
        IN  /\ _canUseLocalStorage' = IF threw THEN "false" ELSE g.flag
            /\ LocalOnly(h)
            /\ StReport("removeStorage", JsBool(removed), {},
                        threw, threw /\ log.throws, g.touched \/ g.storage, g.storage,
                        IF threw THEN log.logged ELSE "none")

\* Util.getSessionStorageKeys(): the enumeration is not inside a try block.
getSessionStorageKeys ==
    \E po \in Asked(_canUseSessionStorage = "undefined", ProbeOutcomes) :
    \E co \in Asked(canUseSessionStorage(_canUseSessionStorage, sessionStorage, po).flag = "true",
                     CallOutcomes) :
        LET c     == canUseSessionStorage(_canUseSessionStorage, sessionStorage, po)
            can   == c.flag = "true"
            threw == can /\ co = "throws"
        IN  /\ _canUseSessionStorage' = c.flag
            /\ SessionOnly(c)
            /\ StReport("getSessionStorageKeys",
                        IF threw THEN "void" ELSE "keys",
                        IF can /\ ~threw THEN {k \in StoreKeys : c.store[k] # 0} ELSE {},
                        threw, threw, c.touched \/ can, FALSE, "none")

\* Util.getSessionStorage(logger, name)
getSessionStorage ==
    \E name \in ItemKeys,
       po1 \in Asked(_canUseSessionStorage = "undefined", ProbeOutcomes) :
    \E po2 \in Asked(canUseSessionStorage(_canUseSessionStorage, sessionStorage, po1).flag = "true", ProbeOutcomes) :
    \E co \in Asked(po2 = "ok", CallOutcomes) :
        LET g     == _getSessionStorageObject(_canUseSessionStorage, sessionStorage, po1, po2)
            threw == g.storage /\ co = "throws"
            log   == throwInternal("BrowserCannotReadSessionStorage")
            found == g.storage /\ ~threw /\ g.store[name] # 0
        IN  /\ _canUseSessionStorage' = IF threw THEN "false" ELSE g.flag
            /\ SessionOnly(g)
            /\ StReport("getSessionStorage",
                        IF found THEN "value" ELSE "null",
                        IF found THEN {g.store[name]} ELSE {},
                        threw, threw /\ log.throws, g.touched \/ g.storage, g.storage,
                        IF threw THEN log.logged ELSE "none")

\* Util.setSessionStorage(logger, name, data)
setSessionStorage ==
    \E name \in ItemKeys, data \in ItemVals,
       po1 \in Asked(_canUseSessionStorage = "undefined", ProbeOutcomes) :
    \E po2 \in Asked(canUseSessionStorage(_canUseSessionStorage, sessionStorage, po1).flag = "true", ProbeOutcomes) :
    \E co \in Asked(po2 = "ok", CallOutcomes) :
        LET g     == _getSessionStorageObject(_canUseSessionStorage, sessionStorage, po1, po2)
            threw == g.storage /\ co = "throws"
            log   == throwInternal("BrowserCannotWriteSessionStorage")
            wrote == g.storage /\ ~threw
            h     == [g EXCEPT !.store = IF wrote THEN [g.store EXCEPT ![name] = data]
                                                  ELSE g.store]
        IN  /\ _canUseSessionStorage' = IF threw THEN "false" ELSE g.flag
            /\ SessionOnly(h)
            /\ StReport("setSessionStorage", JsBool(wrote), {},
                        threw, threw /\ log.throws, g.touched \/ g.storage, g.storage,
                        IF threw THEN log.logged ELSE "none")

\* removeSessionStorage with a catch block that leaves the flag alone.
removeSessionStorage_KeepsFlag ==
    \E name \in ItemKeys,
       po1 \in Asked(_canUseSessionStorage = "undefined", ProbeOutcomes) :
    \E po2 \in Asked(canUseSessionStorage(_canUseSessionStorage, sessionStorage, po1).flag = "true", ProbeOutcomes) :
    \E co \in Asked(po2 = "ok", CallOutcomes) :
        LET g       == _getSessionStorageObject(_canUseSessionStorage, sessionStorage, po1, po2)
            threw   == g.storage /\ co = "throws"
            log     == throwInternal("BrowserFailedRemovalFromSessionStorage")
            removed == g.storage /\ ~threw
            h       == [g EXCEPT !.store = IF removed THEN [g.store EXCEPT ![name] = 0]
                                                    ELSE g.store]
        IN  /\ _canUseSessionStorage' = g.flag
            /\ SessionOnly(h)
            /\ StReport("removeSessionStorage", JsBool(removed), {},
                        threw, threw /\ log.throws, g.touched \/ g.storage, g.storage,
                        IF threw THEN log.logged ELSE "none")

\* Util.removeSessionStorage(logger, name)
removeSessionStorage ==
    \E name \in ItemKeys,
       po1 \in Asked(_canUseSessionStorage = "undefined", ProbeOutcomes) :
    \E po2 \in Asked(canUseSessionStorage(_canUseSessionStorage, sessionStorage, po1).flag = "true", ProbeOutcomes) :
    \E co \in Asked(po2 = "ok", CallOutcomes) :
        LET g       == _getSessionStorageObject(_canUseSessionStorage, sessionStorage, po1, po2)
            threw   == g.storage /\ co = "throws"
            log     == throwInternal("BrowserFailedRemovalFromSessionStorage")
            removed == g.storage /\ ~threw
            h       == [g EXCEPT !.store = IF removed THEN [g.store EXCEPT ![name] = 0]
                                                    ELSE g.store]
        IN  /\ _canUseSessionStorage' = IF threw THEN "false" ELSE g.flag
            /\ SessionOnly(h)
            /\ StReport("removeSessionStorage", JsBool(removed), {},
                        threw, threw /\ log.throws, g.touched \/ g.storage, g.storage,
                        IF threw THEN log.logged ELSE "none")

InitStorage ==
    /\ _canUseLocalStorage = "undefined"
    /\ _canUseSessionStorage = "undefined"
    /\ localStorage = EmptyStore
    /\ sessionStorage = EmptyStore
    /\ stOp = "none"
    /\ stRet = "void"
    /\ stData = {}
    /\ stCallThrew = FALSE
    /\ stPropagated = FALSE
    /\ stTouched = FALSE
    /\ stUsable = FALSE
    /\ stLogged = "none"
    /\ localEvals = 0
    /\ sessionEvals = 0
    /\ stDisabled = FALSE

StorageStep ==
    \/ disableStorage
    \/ CallCanUseLocalStorage
    \/ CallCanUseSessionStorage
    \/ getStorage
    \/ setStorage
    \/ removeStorage
    \/ getSessionStorageKeys
    \/ getSessionStorage
    \/ setSessionStorage
    \/ removeSessionStorage

NextStorage == StorageStep

----------------------------------------------------------------------------
(* JavaScript string functions on character tuples.                        *)

\* s.indexOf(needle): the first 0-based position of needle in s, or -1.
IndexOf(s, needle) ==
    LET hits == { i \in 1..(Len(s) - Len(needle) + 1) :
                    SubSeq(s, i, i + Len(needle) - 1) = needle }
    IN  IF hits = {} THEN -1
        ELSE (CHOOSE i \in hits : \A j \in hits : i <= j) - 1

\* s.lastIndexOf(needle)
LastIndexOf(s, needle) ==
    LET hits == { i \in 1..(Len(s) - Len(needle) + 1) :
                    SubSeq(s, i, i + Len(needle) - 1) = needle }
    IN  IF hits = {} THEN -1
        ELSE (CHOOSE i \in hits : \A j \in hits : i >= j) - 1

\* strEndsWith(s, suffix) / s.endsWith(suffix)
strEndsWith(s, suffix) ==
    /\ Len(suffix) <= Len(s)
    /\ SubSeq(s, Len(s) - Len(suffix) + 1, Len(s)) = suffix

\* s.startsWith(prefix)
StartsWith(s, prefix) ==
    /\ Len(prefix) <= Len(s)
    /\ SubSeq(s, 1, Len(prefix)) = prefix

\* s.substring(from) and s.substring(from, to), 0-based, to exclusive
SubstringFrom(s, from) == SubSeq(s, from + 1, Len(s))
Substring(s, from, to) == SubSeq(s, from + 1, to)

----------------------------------------------------------------------------
(* Util cookie helpers.                                                    *)

\* "CPU iPhone OS 12"
S_iPhoneOS12 ==
    << "C", "P", "U", " ", "i", "P", "h", "o", "n", "e", " ", "O", "S", " ", "1", "2" >>

\* "iPad; CPU OS 12"
S_iPadOS12 ==
    << "i", "P", "a", "d", ";", " ", "C", "P", "U", " ", "O", "S", " ", "1", "2" >>

\* "Macintosh; Intel Mac OS X 10_14"
S_MacOS1014 ==
    << "M", "a", "c", "i", "n", "t", "o", "s", "h", ";", " ", "I", "n", "t", "e", "l", " ", "M",
      "a", "c", " ", "O", "S", " ", "X", " ", "1", "0", "_", "1", "4" >>

\* "Version/"
S_Version ==
    << "V", "e", "r", "s", "i", "o", "n", "/" >>

\* "Safari"
S_Safari ==
    << "S", "a", "f", "a", "r", "i" >>

\* "AppleWebKit/605.1.15 (KHTML, like Gecko)"
S_WebKitTail ==
    << "A", "p", "p", "l", "e", "W", "e", "b", "K", "i", "t", "/", "6", "0", "5", ".", "1", ".",
      "1", "5", " ", "(", "K", "H", "T", "M", "L", ",", " ", "l", "i", "k", "e", " ", "G", "e",
      "c", "k", "o", ")" >>

\* "Chrome/5"
S_Chrome5 ==
    << "C", "h", "r", "o", "m", "e", "/", "5" >>

\* "Chrome/6"
S_Chrome6 ==
    << "C", "h", "r", "o", "m", "e", "/", "6" >>

\* "UnrealEngine"
S_UnrealEngine ==
    << "U", "n", "r", "e", "a", "l", "E", "n", "g", "i", "n", "e" >>

\* "Chrome"
S_Chrome ==
    << "C", "h", "r", "o", "m", "e" >>

\* "UCBrowser/12"
S_UCBrowser12 ==
    << "U", "C", "B", "r", "o", "w", "s", "e", "r", "/", "1", "2" >>

\* "UCBrowser/11"
S_UCBrowser11 ==
    << "U", "C", "B", "r", "o", "w", "s", "e", "r", "/", "1", "1" >>

\* The user agents the model's navigator can report.
\* "(iPhone; CPU iPhone OS 12_0 like Mac OS X) Safari/604"
UA1 ==
    << "(", "i", "P", "h", "o", "n", "e", ";", " ", "C", "P", "U", " ", "i", "P", "h", "o", "n",
      "e", " ", "O", "S", " ", "1", "2", "_", "0", " ", "l", "i", "k", "e", " ", "M", "a", "c",
      " ", "O", "S", " ", "X", ")", " ", "S", "a", "f", "a", "r", "i", "/", "6", "0", "4" >>

\* "(iPad; CPU OS 12_1 like Mac OS X) Safari/604"
UA2 ==
    << "(", "i", "P", "a", "d", ";", " ", "C", "P", "U", " ", "O", "S", " ", "1", "2", "_", "1",
      " ", "l", "i", "k", "e", " ", "M", "a", "c", " ", "O", "S", " ", "X", ")", " ", "S", "a",
      "f", "a", "r", "i", "/", "6", "0", "4" >>

\* "(iPhone; CPU iPhone OS 13_0 like Mac OS X) Safari/604"
UA3 ==
    << "(", "i", "P", "h", "o", "n", "e", ";", " ", "C", "P", "U", " ", "i", "P", "h", "o", "n",
      "e", " ", "O", "S", " ", "1", "3", "_", "0", " ", "l", "i", "k", "e", " ", "M", "a", "c",
      " ", "O", "S", " ", "X", ")", " ", "S", "a", "f", "a", "r", "i", "/", "6", "0", "4" >>

\* "(Macintosh; Intel Mac OS X 10_14) Version/12.0 Safari/605"
UA4 ==
    << "(", "M", "a", "c", "i", "n", "t", "o", "s", "h", ";", " ", "I", "n", "t", "e", "l", " ",
      "M", "a", "c", " ", "O", "S", " ", "X", " ", "1", "0", "_", "1", "4", ")", " ", "V", "e",
      "r", "s", "i", "o", "n", "/", "1", "2", ".", "0", " ", "S", "a", "f", "a", "r", "i", "/",
      "6", "0", "5" >>

\* "(Macintosh; Intel Mac OS X 10_14) AppleWebKit/605.1.15 (KHTML, like Gecko)"
UA5 ==
    << "(", "M", "a", "c", "i", "n", "t", "o", "s", "h", ";", " ", "I", "n", "t", "e", "l", " ",
      "M", "a", "c", " ", "O", "S", " ", "X", " ", "1", "0", "_", "1", "4", ")", " ", "A", "p",
      "p", "l", "e", "W", "e", "b", "K", "i", "t", "/", "6", "0", "5", ".", "1", ".", "1", "5",
      " ", "(", "K", "H", "T", "M", "L", ",", " ", "l", "i", "k", "e", " ", "G", "e", "c", "k",
      "o", ")" >>

\* "(Macintosh; Intel Mac OS X 10_14) Chrome/80.0 Safari/537"
UA6 ==
    << "(", "M", "a", "c", "i", "n", "t", "o", "s", "h", ";", " ", "I", "n", "t", "e", "l", " ",
      "M", "a", "c", " ", "O", "S", " ", "X", " ", "1", "0", "_", "1", "4", ")", " ", "C", "h",
      "r", "o", "m", "e", "/", "8", "0", ".", "0", " ", "S", "a", "f", "a", "r", "i", "/", "5",
      "3", "7" >>

\* "(Macintosh; Intel Mac OS X 10_15) Version/13.0 Safari/605"
UA7 ==
    << "(", "M", "a", "c", "i", "n", "t", "o", "s", "h", ";", " ", "I", "n", "t", "e", "l", " ",
      "M", "a", "c", " ", "O", "S", " ", "X", " ", "1", "0", "_", "1", "5", ")", " ", "V", "e",
      "r", "s", "i", "o", "n", "/", "1", "3", ".", "0", " ", "S", "a", "f", "a", "r", "i", "/",
      "6", "0", "5" >>

\* "(Windows) Chrome/49.0 Safari/537"
UA8 ==
    << "(", "W", "i", "n", "d", "o", "w", "s", ")", " ", "C", "h", "r", "o", "m", "e", "/", "4",
      "9", ".", "0", " ", "S", "a", "f", "a", "r", "i", "/", "5", "3", "7" >>

\* "(Windows) Chrome/50.0 Safari/537"
UA9 ==
    << "(", "W", "i", "n", "d", "o", "w", "s", ")", " ", "C", "h", "r", "o", "m", "e", "/", "5",
      "0", ".", "0", " ", "S", "a", "f", "a", "r", "i", "/", "5", "3", "7" >>

\* "(Windows) Chrome/69.0 Safari/537"
UA10 ==
    << "(", "W", "i", "n", "d", "o", "w", "s", ")", " ", "C", "h", "r", "o", "m", "e", "/", "6",
      "9", ".", "0", " ", "S", "a", "f", "a", "r", "i", "/", "5", "3", "7" >>

\* "(Windows) Chrome/70.0 Safari/537"
UA11 ==
    << "(", "W", "i", "n", "d", "o", "w", "s", ")", " ", "C", "h", "r", "o", "m", "e", "/", "7",
      "0", ".", "0", " ", "S", "a", "f", "a", "r", "i", "/", "5", "3", "7" >>

\* "(Windows) Chrome/5.0 Safari/533"
UA12 ==
    << "(", "W", "i", "n", "d", "o", "w", "s", ")", " ", "C", "h", "r", "o", "m", "e", "/", "5",
      ".", "0", " ", "S", "a", "f", "a", "r", "i", "/", "5", "3", "3" >>

\* "(Windows) Chrome/600.0 Safari/537"
UA13 ==
    << "(", "W", "i", "n", "d", "o", "w", "s", ")", " ", "C", "h", "r", "o", "m", "e", "/", "6",
      "0", "0", ".", "0", " ", "S", "a", "f", "a", "r", "i", "/", "5", "3", "7" >>

\* "(Windows) UnrealEngine/4.22"
UA14 ==
    << "(", "W", "i", "n", "d", "o", "w", "s", ")", " ", "U", "n", "r", "e", "a", "l", "E", "n",
      "g", "i", "n", "e", "/", "4", ".", "2", "2" >>

\* "(Windows) UnrealEngine/4.23 Chrome/59.0"
UA15 ==
    << "(", "W", "i", "n", "d", "o", "w", "s", ")", " ", "U", "n", "r", "e", "a", "l", "E", "n",
      "g", "i", "n", "e", "/", "4", ".", "2", "3", " ", "C", "h", "r", "o", "m", "e", "/", "5",
      "9", ".", "0" >>

\* "(Linux) UCBrowser/12.10"
UA16 ==
    << "(", "L", "i", "n", "u", "x", ")", " ", "U", "C", "B", "r", "o", "w", "s", "e", "r", "/",
      "1", "2", ".", "1", "0" >>

\* "(Linux) UCBrowser/11.5"
UA17 ==
    << "(", "L", "i", "n", "u", "x", ")", " ", "U", "C", "B", "r", "o", "w", "s", "e", "r", "/",
      "1", "1", ".", "5" >>

\* "(Linux) UCBrowser/13.0"
UA18 ==
    << "(", "L", "i", "n", "u", "x", ")", " ", "U", "C", "B", "r", "o", "w", "s", "e", "r", "/",
      "1", "3", ".", "0" >>

\* "(Windows) Firefox/70.0"
UA19 ==
    << "(", "W", "i", "n", "d", "o", "w", "s", ")", " ", "F", "i", "r", "e", "f", "o", "x", "/",
      "7", "0", ".", "0" >>

UserAgents ==
    << UA1, UA2, UA3, UA4, UA5, UA6, UA7, UA8, UA9, UA10, UA11, UA12, UA13, UA14, UA15, UA16, UA17, UA18, UA19 >>

\* ";secure"
S_secure ==
    << ";", "s", "e", "c", "u", "r", "e" >>

\* ";SameSite=None"
S_SameSiteNone ==
    << ";", "S", "a", "m", "e", "S", "i", "t", "e", "=", "N", "o", "n", "e" >>

\* ";domain="
S_domain ==
    << ";", "d", "o", "m", "a", "i", "n", "=" >>

\* ";path=/"
S_path ==
    << ";", "p", "a", "t", "h", "=", "/" >>

\* "=;path=/;expires=Thu, 01 Jan 1970 00:00:01 GMT;"
S_deleteTail ==
    << "=", ";", "p", "a", "t", "h", "=", "/", ";", "e", "x", "p", "i", "r", "e", "s", "=", "T",
      "h", "u", ",", " ", "0", "1", " ", "J", "a", "n", " ", "1", "9", "7", "0", " ", "0", "0",
      ":", "0", "0", ":", "0", "1", " ", "G", "M", "T", ";" >>

\* Cookie names, values and domains handed to setCookie: cookie tokens, which
\* hold no ';'. The empty domain stands for the omitted argument.
CookieNames == { <<"a", "i", "_", "u">>, <<"s">> }
CookieValues == { <<"v">>, <<"i", "d", "|", "1">> }
CookieDomains == { << >>, <<"a", ".", "b">> }

LocationProtocols == {"null", "http:", "https:", "file:"}
DocCookieAccesses == {"string", "undefined", "throws"}

\* (getNavigator() || {}).userAgent: a string, or undefined without a navigator
UserAgentOf(ix) ==
    IF ix = 0 THEN [isString |-> FALSE, chars |-> << >>]
    ELSE [isString |-> TRUE, chars |-> UserAgents[ix]]

\* Util.disallowsSameSiteNone(userAgent)
disallowsSameSiteNone(userAgent) ==
    LET ua == userAgent.chars
        has(n) == IndexOf(ua, n) # -1
    IN  IF ~userAgent.isString THEN FALSE
        ELSE IF has(S_iPhoneOS12) \/ has(S_iPadOS12) THEN TRUE
        ELSE IF has(S_MacOS1014) /\ has(S_Version) /\ has(S_Safari) THEN TRUE
        ELSE IF has(S_MacOS1014) /\ strEndsWith(ua, S_WebKitTail) THEN TRUE
        ELSE IF has(S_Chrome5) \/ has(S_Chrome6) THEN TRUE
        ELSE IF has(S_UnrealEngine) /\ ~has(S_Chrome) THEN TRUE
        ELSE IF has(S_UCBrowser12) \/ has(S_UCBrowser11) THEN TRUE
        ELSE FALSE

\* Util.canUseCookies(logger): the flag after the call, which is also the
\* value returned. The first call reads document.cookie inside a try block.
canUseCookies(flag, access) ==
    IF flag = "undefined" THEN JsBool(access = "string") ELSE flag

\* What a cookie operation reports about itself.
CkReport(op, wrote, ret) ==
    /\ ckOp' = op
    /\ ckWrote' = wrote
    /\ ckRet' = ret
    /\ UNCHANGED << locationProtocol, navigatorUA, docCookieAccess >>
    /\ UNCHANGED otherThanCookie

\* Util.disableCookies(): coreDisableCookies() forces the flag to false.
disableCookies ==
    /\ _canUseCookies' = "false"
    /\ CkReport("disableCookies", FALSE, "void")
    /\ UNCHANGED << _uaDisallowsSameSiteNone, documentCookie >>

\* A call of Util.canUseCookies(logger)
CallCanUseCookies ==
    LET can == canUseCookies(_canUseCookies, docCookieAccess)
    IN  /\ _canUseCookies' = can
        /\ CkReport("canUseCookies", FALSE, can)
        /\ UNCHANGED << _uaDisallowsSameSiteNone, documentCookie >>

\* setCookie that marks every cookie secure, whatever the page protocol.
setCookie_AlwaysSecure ==
    \E name \in CookieNames, value \in CookieValues, domain \in CookieDomains :
        LET can          == canUseCookies(_canUseCookies, docCookieAccess)
            domainAttrib == IF domain # << >> THEN S_domain \o domain ELSE << >>
            https        == locationProtocol = "https:"
            secureAttrib == S_secure
            uaFlag       == IF https /\ _uaDisallowsSameSiteNone = "null"
                            THEN JsBool(disallowsSameSiteNone(UserAgentOf(navigatorUA)))
                            ELSE _uaDisallowsSameSiteNone
            value2       == IF https /\ uaFlag # "true" THEN value \o S_SameSiteNone ELSE value
        IN  /\ _canUseCookies' = can
            /\ _uaDisallowsSameSiteNone' = IF can = "true" THEN uaFlag
                                           ELSE _uaDisallowsSameSiteNone
            /\ documentCookie' = IF can = "true"
                                 THEN name \o <<"=">> \o value2 \o domainAttrib \o S_path
                                           \o secureAttrib
                                 ELSE documentCookie
            /\ CkReport("setCookie", can = "true", can)

\* Util.setCookie(logger, name, value, domain)
setCookie ==
    \E name \in CookieNames, value \in CookieValues, domain \in CookieDomains :
        LET can          == canUseCookies(_canUseCookies, docCookieAccess)
            domainAttrib == IF domain # << >> THEN S_domain \o domain ELSE << >>
            https        == locationProtocol = "https:"
            secureAttrib == IF https THEN S_secure ELSE << >>
            uaFlag       == IF https /\ _uaDisallowsSameSiteNone = "null"
                            THEN JsBool(disallowsSameSiteNone(UserAgentOf(navigatorUA)))
                            ELSE _uaDisallowsSameSiteNone
            value2       == IF https /\ uaFlag # "true" THEN value \o S_SameSiteNone ELSE value
        IN  /\ _canUseCookies' = can
            /\ _uaDisallowsSameSiteNone' = IF can = "true" THEN uaFlag
                                           ELSE _uaDisallowsSameSiteNone
            /\ documentCookie' = IF can = "true"
                                 THEN name \o <<"=">> \o value2 \o domainAttrib \o S_path
                                           \o secureAttrib
                                 ELSE documentCookie
            /\ CkReport("setCookie", can = "true", can)

\* Util.deleteCookie(logger, name)
deleteCookie ==
    \E name \in CookieNames :
        LET can == canUseCookies(_canUseCookies, docCookieAccess)
        IN  /\ _canUseCookies' = can
            /\ documentCookie' = IF can = "true" THEN name \o S_deleteTail
                                 ELSE documentCookie
            /\ CkReport("deleteCookie", can = "true", can)
            /\ UNCHANGED _uaDisallowsSameSiteNone

InitCookie ==
    /\ _canUseCookies = "undefined"
    /\ _uaDisallowsSameSiteNone = "null"
    /\ documentCookie = << >>
    /\ ckOp = "none"
    /\ ckWrote = FALSE
    /\ ckRet = "void"
    /\ locationProtocol \in LocationProtocols
    /\ navigatorUA \in 0..Len(UserAgents)
    /\ docCookieAccess \in DocCookieAccesses

\* The cookie state of a page on which no cookie helper runs.
IdleCookie ==
    /\ _canUseCookies = "undefined"
    /\ _uaDisallowsSameSiteNone = "null"
    /\ documentCookie = << >>
    /\ ckOp = "none"
    /\ ckWrote = FALSE
    /\ ckRet = "void"
    /\ locationProtocol = "null"
    /\ navigatorUA = 0
    /\ docCookieAccess = "undefined"

NextCookie ==
    \/ disableCookies
    \/ CallCanUseCookies
    \/ setCookie
    \/ deleteCookie

----------------------------------------------------------------------------
(* UrlHelper.                                                              *)

\* JavaScript null and undefined where a string is expected.
Null == << "<null>" >>
Undefined == << "<undefined>" >>

Digits == {"0", "1", "2", "3", "4", "5", "6", "7", "8", "9"}
UpperCase ==
    << "A", "B", "C", "D", "E", "F", "G", "H", "I", "J", "K", "L", "M",
       "N", "O", "P", "Q", "R", "S", "T", "U", "V", "W", "X", "Y", "Z" >>
LowerCase ==
    << "a", "b", "c", "d", "e", "f", "g", "h", "i", "j", "k", "l", "m",
       "n", "o", "p", "q", "r", "s", "t", "u", "v", "w", "x", "y", "z" >>
\* the class \w
WordChars ==
    { UpperCase[i] : i \in 1..Len(UpperCase) } \cup { LowerCase[i] : i \in 1..Len(LowerCase) }
        \cup Digits \cup {"_"}

\* s.toLowerCase()
toLowerCase(s) ==
    [ i \in 1..Len(s) |->
        IF \E j \in 1..Len(UpperCase) : UpperCase[j] = s[i]
        THEN LowerCase[CHOOSE j \in 1..Len(UpperCase) : UpperCase[j] = s[i]]
        ELSE s[i] ]

S_schemeSep == << ":", "/", "/" >>
S_http == << "h", "t", "t", "p" >>
S_https == << "h", "t", "t", "p", "s" >>
S_port80 == << ":", "8", "0" >>
S_port443 == << ":", "4", "4", "3" >>
S_www == << "w", "w", "w" >>

\* The least element of a non-empty set of numbers.
Min(S) == CHOOSE i \in S : \A j \in S : i <= j
Max(S) == CHOOSE i \in S : \A j \in S : i >= j

\* The end of the longest run of characters of s from position from (1-based)
\* on that are in the class; from - 1 when there is none.
RunEndAt(s, stops) == IF stops = {} THEN Len(s) ELSE Min(stops) - 1
RunEnd(s, from, class) == RunEndAt(s, { i \in from..Len(s) : s[i] \notin class })

\* The start of the longest run of characters of the class that ends at to.
RunStartAt(stops) == IF stops = {} THEN 1 ELSE Max(stops) + 1
RunStart(s, to, class) == RunStartAt({ i \in 1..to : s[i] \notin class })

\* The characters of s that the class [^/:] admits.
NotSlashColon(s) == { s[i] : i \in 1..Len(s) } \ {"/", ":"}

\* The groups (.[^/:]+)(\:[\d]+)? matched at position h of s: any one
\* character, then the longest non-empty run without '/' and ':' (it ends at
\* e), and a port when ':' and digits follow. ok is FALSE when the groups do
\* not match at h.
HostAndPortAt(s, h, e) ==
    [ ok   |-> h + 1 <= Len(s) /\ e >= h + 1,
      host |-> IF h + 1 <= Len(s) /\ e >= h + 1 THEN SubSeq(s, h, e) ELSE << >>,
      port |-> IF /\ h + 1 <= Len(s) /\ e >= h + 1
                  /\ e + 2 <= Len(s) /\ s[e + 1] = ":" /\ s[e + 2] \in Digits
               THEN SubSeq(s, e + 1, RunEnd(s, e + 2, Digits))
               ELSE << >> ]
HostAndPort(s, h) == HostAndPortAt(s, h, RunEnd(s, h + 1, NotSlashColon(s)))

\* Lines 678-690 of parseFullHost: the result built from the lower-cased
\* group 1 (protocol) and the host and port groups m.
FullHostOf(inclPort, protocol, m) ==
    IF ~inclPort THEN m.host
    ELSE IF protocol = S_http /\ m.port = S_port80 THEN m.host
    ELSE IF protocol = S_https /\ m.port = S_port443 THEN m.host
    ELSE m.host \o m.port

\* The match of /(\w*):\/\/(.[^/:]+)(\:[\d]+)?/i whose "://" is at position q:
\* group 1 is the run of \w before it.
FullHostAt(url, inclPort, q) ==
    FullHostOf(inclPort,
               toLowerCase(SubSeq(url, RunStart(url, q - 1, WordChars), q - 1)),
               HostAndPort(url, q + 3))

\* The leftmost match is at the first "://" after which the host groups match.
FullHostFrom(url, inclPort, seps) ==
    IF url = << >> \/ url = Null \/ url = Undefined \/ seps = {} THEN Null
    ELSE FullHostAt(url, inclPort, Min(seps))

\* UrlHelper.parseFullHost(url, inclPort)
parseFullHost(url, inclPort) ==
    FullHostFrom(url, inclPort,
                 { q \in 1..(Len(url) - 2) :
                     SubSeq(url, q, q + 2) = S_schemeSep /\ HostAndPort(url, q + 3).ok })

\* The length of the group (www[0-9]?\.)? at the start of fullHost.
WwwSkip(fullHost) ==
    IF Len(fullHost) < 4 \/ toLowerCase(SubSeq(fullHost, 1, 3)) # S_www THEN 0
    ELSE IF fullHost[4] = "." THEN 4
    ELSE IF Len(fullHost) >= 5 /\ fullHost[4] \in Digits /\ fullHost[5] = "." THEN 5
    ELSE 0

\* match[2] + (match[3] || "") of /(www[0-9]?\.)?(.[^/:]+)(\:[\d]+)?/i on
\* fullHost: the match after the www group when there is one, else the match
\* at the start.
HostMatch(fullHost, skip, afterWww, atStart) ==
    IF skip > 0 /\ afterWww.ok THEN afterWww.host \o afterWww.port
    ELSE IF atStart.ok THEN atStart.host \o atStart.port
    ELSE fullHost

StripWww(fullHost) ==
    IF fullHost = Null \/ fullHost = << >> THEN fullHost
    ELSE HostMatch(fullHost, WwwSkip(fullHost),
                   HostAndPort(fullHost, WwwSkip(fullHost) + 1), HostAndPort(fullHost, 1))

\* UrlHelper.parseHost(url, inclPort)
parseHost(url, inclPort) == StripWww(parseFullHost(url, inclPort))

\* The URLs handed to the helpers.
\* "http://a.b/p"
URL1 ==
    << "h", "t", "t", "p", ":", "/", "/", "a", ".", "b", "/", "p" >>

\* "https://a.b:443/p"
URL2 ==
    << "h", "t", "t", "p", "s", ":", "/", "/", "a", ".", "b", ":", "4", "4", "3", "/", "p" >>

\* "http://a.b:80"
URL3 ==
    << "h", "t", "t", "p", ":", "/", "/", "a", ".", "b", ":", "8", "0" >>

\* "http://A.b/"
URL4 ==
    << "h", "t", "t", "p", ":", "/", "/", "A", ".", "b", "/" >>

\* "/p"
URL5 ==
    << "/", "p" >>

\* "mailto:x"
URL6 ==
    << "m", "a", "i", "l", "t", "o", ":", "x" >>

\* "http://www.a.b/"
URL7 ==
    << "h", "t", "t", "p", ":", "/", "/", "w", "w", "w", ".", "a", ".", "b", "/" >>

\* "http://a.b:8080/x"
URL8 ==
    << "h", "t", "t", "p", ":", "/", "/", "a", ".", "b", ":", "8", "0", "8", "0", "/", "x" >>

\* "https://c.d/"
URL9 ==
    << "h", "t", "t", "p", "s", ":", "/", "/", "c", ".", "d", "/" >>

\* ""
URL10 ==
    << >>

\* "http://axb/"
URL11 ==
    << "h", "t", "t", "p", ":", "/", "/", "a", "x", "b", "/" >>

\* "HTTP://a.b:80/"
URL12 ==
    << "H", "T", "T", "P", ":", "/", "/", "a", ".", "b", ":", "8", "0", "/" >>

\* "https://a.b:80/"
URL13 ==
    << "h", "t", "t", "p", "s", ":", "/", "/", "a", ".", "b", ":", "8", "0", "/" >>

Urls ==
    << URL1, URL2, URL3, URL4, URL5, URL6, URL7, URL8, URL9, URL10, URL11, URL12, URL13 >>

\* The page the script runs on: "modern" and "ie" have document.createElement,
\* "none" (a worker, a non-DOM host) has not.
Browsers == {"modern", "ie", "none"}
HostAB ==
    << "a", ".", "b" >>
PageHosts == { HostAB, << >> }

\* The host property of a browser's anchor element whose href is url, on a
\* page of host page: the lower-cased authority of an absolute URL (Internet
\* Explorer keeps a default port, other browsers drop it), the empty string for
\* a URL with a scheme and no authority, and for a relative URL the page's host
\* (Internet Explorer: the empty string).
UpTo(s, i) == IF i = -1 THEN s ELSE SubSeq(s, 1, i)
Authority(rest) == toLowerCase(UpTo(rest, IndexOf(rest, <<"/">>)))
AuthorityHost(scheme, auth, br) ==
    IF br # "ie" /\ scheme = S_http /\ strEndsWith(auth, S_port80)
    THEN SubSeq(auth, 1, Len(auth) - Len(S_port80))
    ELSE IF br # "ie" /\ scheme = S_https /\ strEndsWith(auth, S_port443)
    THEN SubSeq(auth, 1, Len(auth) - Len(S_port443))
    ELSE auth
AnchorHostAt(url, br, page, q, colon) ==
    IF q > 0 /\ colon = q
    THEN AuthorityHost(toLowerCase(SubSeq(url, 1, q)),
                       Authority(SubSeq(url, q + 4, Len(url))), br)
    ELSE IF colon > 0 THEN << >>
    ELSE IF br = "ie" THEN << >>
    ELSE page
AnchorHost(url, br, page) ==
    AnchorHostAt(url, br, page, IndexOf(url, S_schemeSep), IndexOf(url, <<":">>))

\* The length of UrlHelper._htmlAnchorElement.
AnchorCacheSize == 5

\* The most parseUrl calls one behaviour makes.
MaxCalls == 7

\* parseUrl with an index that wraps one slot early.
ParseUrlInto_ShortCycle(st, url, obj) ==
    [ idx   |-> IF st.idx + 1 >= AnchorCacheSize - 1 THEN 0 ELSE st.idx + 1,
      cache |-> IF st.createElement /\ st.cache[st.idx + 1] = 0
                THEN [st.cache EXCEPT ![st.idx + 1] = obj] ELSE st.cache,
      heap  |-> IF obj > Len(st.heap)
                THEN Append(st.heap, [href |-> url, temp |-> ~st.createElement])
                ELSE [st.heap EXCEPT ![obj].href = url],
      obj   |-> obj ]

\* Lines 608-626 of parseUrl, with obj the object that becomes tempAnchor: a
\* new object is added to the heap (and, when document.createElement made it,
\* to the cache slot), its href is assigned, and the index moves on.
ParseUrlInto(st, url, obj) ==
    [ idx   |-> IF st.idx + 1 >= AnchorCacheSize THEN 0 ELSE st.idx + 1,
      cache |-> IF st.createElement /\ st.cache[st.idx + 1] = 0
                THEN [st.cache EXCEPT ![st.idx + 1] = obj] ELSE st.cache,
      heap  |-> IF obj > Len(st.heap)
                THEN Append(st.heap, [href |-> url, temp |-> ~st.createElement])
                ELSE [st.heap EXCEPT ![obj].href = url],
      obj   |-> obj ]

\* UrlHelper.parseUrl(url) on st = [idx, cache, heap, createElement]: idx is
\* _htmlAnchorIdx, cache is _htmlAnchorElement (0: null, else an object of the
\* heap), heap holds every anchor object made so far with its href (an index
\* of Urls). Without document.createElement each call makes a temporary object
\* { host, href }; with it the slot's anchor is created once and reused. obj
\* is the object returned.
parseUrl(st, url) ==
    ParseUrlInto(st, url,
                 IF ~st.createElement \/ st.cache[st.idx + 1] = 0
                 THEN Len(st.heap) + 1
                 ELSE st.cache[st.idx + 1])

\* The host property of anchor object o: a temporary object carries
\* parseHost(url, true) of the URL it was made for, a browser anchor the host
\* of its current href.
HostOf(o, br, page) ==
    IF o.temp THEN parseHost(Urls[o.href], TRUE)
    ELSE AnchorHost(Urls[o.href], br, page)

\* What the anchor cache looks like to parseUrl.
UrlState ==
    [ idx |-> _htmlAnchorIdx, cache |-> _htmlAnchorElement, heap |-> anchorHeap,
      createElement |-> (browser # "none") ]

\* The URLs the direct callers of parseUrl pass in (indices of Urls).
UrlsParsed == {1, 9}
EmptyUrl == 10

\* One call of parseUrl made by operation op; r is what parseUrl answered.
UrlReport(op, r, url, target) ==
    /\ _htmlAnchorIdx' = r.idx
    /\ _htmlAnchorElement' = r.cache
    /\ anchorHeap' = r.heap
    /\ urlCalls' = Append(urlCalls, [obj |-> r.obj, url |-> url])
    /\ urlOp' = op
    /\ urlTarget' = target
    /\ UNCHANGED << browser, pageHost >>

\* A direct call of UrlHelper.parseUrl(url); the caller keeps the anchor.
CallParseUrl ==
    /\ Len(urlCalls) < MaxCalls
    /\ \E url \in UrlsParsed :
        /\ UrlReport("parseUrl", parseUrl(UrlState, url), url, << >>)
        /\ UNCHANGED << otherThanUrl >>

\* UrlHelper.getAbsoluteUrl(url): the href of the anchor parseUrl returns
getAbsoluteUrl ==
    /\ Len(urlCalls) < MaxCalls
    /\ \E url \in UrlsParsed :
        /\ UrlReport("getAbsoluteUrl", parseUrl(UrlState, url), url, << >>)
        /\ UNCHANGED << otherThanUrl >>

\* UrlHelper.getPathName(url): the pathname of the anchor parseUrl returns
getPathName ==
    /\ Len(urlCalls) < MaxCalls
    /\ \E url \in UrlsParsed :
        /\ UrlReport("getPathName", parseUrl(UrlState, url), url, << >>)
        /\ UNCHANGED << otherThanUrl >>

\* Lines 795-796 of ParseDependencyPath: the target is the host of the anchor.
DependencyTarget(r, absoluteUrl) ==
    UrlReport("ParseDependencyPath", r, absoluteUrl, HostOf(r.heap[r.obj], browser, pageHost))

\* AjaxHelper.ParseDependencyPath(logger, absoluteUrl, method, commandName,
\* customData): parseUrl is called for a non-empty absoluteUrl and the target
\* is the anchor's host; otherwise the target is commandName. (name and data
\* are values returned to the caller; they are not kept here.)
ParseDependencyPath ==
    /\ Len(urlCalls) < MaxCalls
    /\ \E absoluteUrl \in UrlsParsed \cup {EmptyUrl}, commandName \in {Undefined, <<"c">>} :
        IF Urls[absoluteUrl] # << >>
        THEN /\ DependencyTarget(parseUrl(UrlState, absoluteUrl), absoluteUrl)
             /\ UNCHANGED << otherThanUrl >>
        ELSE /\ urlOp' = "ParseDependencyPath"
             /\ urlTarget' = commandName
             /\ UNCHANGED << _htmlAnchorIdx, _htmlAnchorElement, anchorHeap, urlCalls,
                             browser, pageHost >>
             /\ UNCHANGED << otherThanUrl >>

InitUrl ==
    /\ _htmlAnchorIdx = 0
    /\ _htmlAnchorElement = [i \in 1..AnchorCacheSize |-> 0]
    /\ anchorHeap = << >>
    /\ urlCalls = << >>
    /\ urlOp = "none"
    /\ urlTarget = << >>
    /\ browser \in Browsers
    /\ pageHost \in PageHosts

\* The anchor cache of a page on which no URL helper runs.
IdleUrl ==
    /\ _htmlAnchorIdx = 0
    /\ _htmlAnchorElement = [i \in 1..AnchorCacheSize |-> 0]
    /\ anchorHeap = << >>
    /\ urlCalls = << >>
    /\ urlOp = "none"
    /\ urlTarget = << >>
    /\ browser = "modern"
    /\ pageHost = HostAB

NextUrl ==
    \/ CallParseUrl
    \/ getAbsoluteUrl
    \/ getPathName
    \/ ParseDependencyPath

----------------------------------------------------------------------------
(* CorrelationIdHelper.canIncludeCorrelationHeader.                        *)

\* A compiled regular expression is a sequence of tokens: a literal
\* character, '.' (any character) or '.*'.
Lit(c) == [k |-> "lit", c |-> c]
AnyChar == [k |-> "any", c |-> ""]
AnyStar == [k |-> "star", c |-> ""]

\* new RegExp(source) for a source made of '.', '.*' and characters that
\* stand for themselves.
RECURSIVE NewRegExp(_)
NewRegExp(source) ==
    IF source = << >> THEN << >>
    ELSE IF Len(source) >= 2 /\ source[1] = "." /\ source[2] = "*"
         THEN << AnyStar >> \o NewRegExp(SubSeq(source, 3, Len(source)))
    ELSE IF source[1] = "."
         THEN << AnyChar >> \o NewRegExp(Tail(source))
    ELSE << Lit(source[1]) >> \o NewRegExp(Tail(source))

\* Whether regex from token ri on matches s at position si.
RECURSIVE MatchHere(_, _, _, _)
MatchHere(regex, ri, s, si) ==
    IF ri > Len(regex) THEN TRUE
    ELSE IF regex[ri].k = "star"
         THEN \E k \in si..(Len(s) + 1) : MatchHere(regex, ri + 1, s, k)
    ELSE IF si > Len(s) THEN FALSE
    ELSE IF regex[ri].k = "any" THEN MatchHere(regex, ri + 1, s, si + 1)
    ELSE regex[ri].c = s[si] /\ MatchHere(regex, ri + 1, s, si + 1)

\* regex.test(s): the expression matches somewhere in s.
RegExpTest(regex, s) ==
    \E i \in 1..(Len(s) + 1) : MatchHere(regex, 1, s, i)

\* s.replace(/<char>/g, by)
RECURSIVE ReplaceAll(_, _, _)
ReplaceAll(s, char, by) ==
    IF s = << >> THEN << >>
    ELSE (IF s[1] = char THEN by ELSE << s[1] >>) \o ReplaceAll(Tail(s), char, by)

\* new RegExp(domain.toLowerCase().replace(/\./g, "\.").replace(/\*/g, ".*")):
\* the string literal "\." is the one character '.'.
DomainRegExp(domain) ==
    NewRegExp(ReplaceAll(ReplaceAll(toLowerCase(domain), ".", << "." >>), "*", << ".", "*" >>))

\* Entries of correlationHeaderDomains / correlationHeaderExcludedDomains.
\* "a.b"
D_ab ==
    << "a", ".", "b" >>
\* "*.b"
D_starb ==
    << "*", ".", "b" >>
\* "c.d"
D_cd ==
    << "c", ".", "d" >>
\* "A.B"
D_AB ==
    << "A", ".", "B" >>
\* ""
D_empty ==
    << >>

\* A list the configuration may leave out.
Absent == [present |-> FALSE, items |-> << >>]
List(items) == [present |-> TRUE, items |-> items]

DomainLists ==
    { Absent, List(<< >>), List(<< D_ab >>), List(<< D_starb >>), List(<< D_cd >>),
      List(<< D_empty >>), List(<< D_cd, D_AB >>) }

\* correlationHeaderExcludePatterns: regular expressions without the g and y
\* flags (test() keeps no position), here /\/p/ and /:80/.
PatternLists ==
    { Absent, List(<< << Lit("/"), Lit("p") >> >>),
      List(<< << Lit("z") >>, << Lit(":"), Lit("8"), Lit("0") >> >>) }

\* ICorrelationConfig values; isNull: no config object was passed.
NullConfig ==
    [ isNull |-> TRUE, disableCorrelationHeaders |-> FALSE, enableCorsCorrelation |-> FALSE,
      correlationHeaderExcludePatterns |-> Absent, correlationHeaderDomains |-> Absent,
      correlationHeaderExcludedDomains |-> Absent ]
Configs ==
    { NullConfig } \cup
    [ isNull : {FALSE}, disableCorrelationHeaders : BOOLEAN, enableCorsCorrelation : BOOLEAN,
      correlationHeaderExcludePatterns : PatternLists, correlationHeaderDomains : DomainLists,
      correlationHeaderExcludedDomains : DomainLists ]

HostCD ==
    << "c", ".", "d" >>
CurrentHosts == { Undefined, << >>, HostAB, HostCD }

\* Some entry of the list, made a regular expression, matches host.
SomeDomainMatches(list, host) ==
    \E i \in 1..Len(list.items) : RegExpTest(DomainRegExp(list.items[i]), host)

\* Some exclude pattern matches the request URL.
SomePatternMatches(list, url) ==
    \E i \in 1..Len(list.items) : RegExpTest(list.items[i], url)

\* requestHost as lines 721-726 compute it from the host of the parsed
\* anchor: lower-cased, and parsed again from the URL when it shows a port
\* ":443" or ":80".
OrEmpty(s) == IF s = Null THEN << >> ELSE s
RequestHostOf(lower, requestUrl) ==
    IF lower # << >> /\ (IndexOf(lower, S_port443) # -1 \/ IndexOf(lower, S_port80) # -1)
    THEN toLowerCase(OrEmpty(parseFullHost(requestUrl, TRUE)))
    ELSE lower
RequestHost(anchorHost, requestUrl) == RequestHostOf(toLowerCase(anchorHost), requestUrl)

\* The early exits of canIncludeCorrelationHeader, taken before parseUrl.
ExcludedBeforeParse(config, requestUrl) ==
    \/ requestUrl = << >>
    \/ ~config.isNull /\ config.disableCorrelationHeaders
    \/ /\ ~config.isNull
       /\ config.correlationHeaderExcludePatterns.present
       /\ SomePatternMatches(config.correlationHeaderExcludePatterns, requestUrl)

\* Lines 728-759 without the comparison of requestHost and currentHost.
Decide_NoHostCheck(config, currentHost, requestHost) ==
    IF FALSE
    THEN "false"
    ELSE IF /\ ~config.isNull
            /\ config.correlationHeaderDomains.present
            /\ ~SomeDomainMatches(config.correlationHeaderDomains, requestHost)
         THEN "false"
    ELSE IF \/ config.isNull
            \/ ~config.correlationHeaderExcludedDomains.present
            \/ Len(config.correlationHeaderExcludedDomains.items) = 0
         THEN "true"
    ELSE IF SomeDomainMatches(config.correlationHeaderExcludedDomains, requestHost) THEN "false"
    ELSE IF requestHost = << >> THEN "emptyString"
    ELSE "true"

\* Lines 728-759 with the test of correlationHeaderDomains inverted.
Decide_IncludeInverted(config, currentHost, requestHost) ==
    IF (config.isNull \/ ~config.enableCorsCorrelation) /\ requestHost # currentHost
    THEN "false"
    ELSE IF /\ ~config.isNull
            /\ config.correlationHeaderDomains.present
            /\ SomeDomainMatches(config.correlationHeaderDomains, requestHost)
         THEN "false"
    ELSE IF \/ config.isNull
            \/ ~config.correlationHeaderExcludedDomains.present
            \/ Len(config.correlationHeaderExcludedDomains.items) = 0
         THEN "true"
    ELSE IF SomeDomainMatches(config.correlationHeaderExcludedDomains, requestHost) THEN "false"
    ELSE IF requestHost = << >> THEN "emptyString"
    ELSE "true"

\* Lines 728-759 with an exclusion that needs every excluded entry to match.
Decide_ExcludeNeedsAll(config, currentHost, requestHost) ==
    IF (config.isNull \/ ~config.enableCorsCorrelation) /\ requestHost # currentHost
    THEN "false"
    ELSE IF /\ ~config.isNull
            /\ config.correlationHeaderDomains.present
            /\ ~SomeDomainMatches(config.correlationHeaderDomains, requestHost)
         THEN "false"
    ELSE IF \/ config.isNull
            \/ ~config.correlationHeaderExcludedDomains.present
            \/ Len(config.correlationHeaderExcludedDomains.items) = 0
         THEN "true"
    ELSE IF \A i \in 1..Len(config.correlationHeaderExcludedDomains.items) :
                RegExpTest(DomainRegExp(config.correlationHeaderExcludedDomains.items[i]), requestHost) THEN "false"
    ELSE IF requestHost = << >> THEN "emptyString"
    ELSE "true"

\* Lines 728-759 of canIncludeCorrelationHeader: "emptyString" when the
\* function returns requestHost itself, which is then "".
Decide(config, currentHost, requestHost) ==
    IF (config.isNull \/ ~config.enableCorsCorrelation) /\ requestHost # currentHost
    THEN "false"
    ELSE IF /\ ~config.isNull
            /\ config.correlationHeaderDomains.present
            /\ ~SomeDomainMatches(config.correlationHeaderDomains, requestHost)
         THEN "false"
    ELSE IF \/ config.isNull
            \/ ~config.correlationHeaderExcludedDomains.present
            \/ Len(config.correlationHeaderExcludedDomains.items) = 0
         THEN "true"
    ELSE IF SomeDomainMatches(config.correlationHeaderExcludedDomains, requestHost) THEN "false"
    ELSE IF requestHost = << >> THEN "emptyString"
    ELSE "true"

\* Lines 721-759, given the host of the anchor parseUrl returned: "TypeError"
\* when that host is null (null.toLowerCase() throws).
DecideAfterParse(config, requestUrl, currentHost, anchorHost) ==
    IF anchorHost = Null THEN "TypeError"
    ELSE Decide(config, currentHost, RequestHost(anchorHost, requestUrl))

\* What canIncludeCorrelationHeader does once past the early exits: r is what
\* parseUrl answered.
CorrAfterParse(r) ==
    /\ corrRet' = DecideAfterParse(corrConfig, Urls[corrUrl], corrCurrentHost,
                                   HostOf(r.heap[r.obj], browser, pageHost))
    /\ UrlReport("canIncludeCorrelationHeader", r, corrUrl,
                 HostOf(r.heap[r.obj], browser, pageHost))

\* CorrelationIdHelper.canIncludeCorrelationHeader(config, requestUrl, currentHost)
canIncludeCorrelationHeader ==
    /\ corrPc = "call"
    /\ corrPc' = "done"
    /\ UNCHANGED << corrConfig, corrUrl, corrCurrentHost >>
    /\ UNCHANGED << otherThanUrlAndCorr >>
    /\ IF ExcludedBeforeParse(corrConfig, Urls[corrUrl])
       THEN /\ corrRet' = "false"
            /\ UNCHANGED urlVars
       ELSE CorrAfterParse(parseUrl(UrlState, corrUrl))

InitCorr ==
    /\ corrConfig \in Configs
    /\ corrUrl \in 1..Len(Urls)
    /\ corrCurrentHost \in CurrentHosts
    /\ corrPc = "call"
    /\ corrRet = "none"

\* No call of canIncludeCorrelationHeader is under way.
IdleCorr ==
    /\ corrConfig = NullConfig
    /\ corrUrl = EmptyUrl
    /\ corrCurrentHost = Undefined
    /\ corrPc = "idle"
    /\ corrRet = "none"

NextCorr == canIncludeCorrelationHeader

----------------------------------------------------------------------------
(* tools/subResourceIntegrity/generateIntegrityFile.js.                    *)

\* ".integrity.json"
S_integrityJson ==
    <<".", "i", "n", "t", "e", "g", "r", "i", "t", "y", ".", "j", "s", "o", "n">>
\* ".js"
S_js == << ".", "j", "s" >>

\* f with key k set to v (obj[k] = v).
Put(f, k, v) == [x \in DOMAIN f \cup {k} |-> IF x = k THEN v ELSE f[x]]

\* isVersioned.exec(s) is not null: some digit is followed by '.', and s ends
\* with "js" after that '.'.
isVersioned(s) ==
    /\ strEndsWith(s, << "j", "s" >>)
    /\ \E i \in 1..(Len(s) - 3) : s[i] \in Digits /\ s[i + 1] = "."

\* \d{1,3} at position d followed by '.': the position of the last digit, 0
\* when there is no such match.
DigitsDotAt(s, d, e) ==
    IF e - d + 1 <= 3 /\ e < Len(s) /\ s[e + 1] = "." THEN e ELSE 0
DigitsDot(s, d) ==
    IF d < 1 \/ d > Len(s) \/ s[d] \notin Digits THEN 0
    ELSE DigitsDotAt(s, d, RunEnd(s, d, Digits))

\* The groups of extractFilename.exec(s) when the three numbers end at e1,
\* e2, e3 (0: no match): [^\d]* runs to the first digit d, so group 2 starts
\* at the '.' before d; group 3 is the rest, '.' first and "js" last.
NoGroups == [ found |-> FALSE, g1 |-> << >>, g2 |-> << >>, g3 |-> << >> ]
ExtractGroups(s, d, e3) ==
    IF e3 = 0 \/ Len(s) - e3 < 3 \/ ~strEndsWith(s, << "j", "s" >>) THEN NoGroups
    ELSE [ found |-> TRUE, g1 |-> SubSeq(s, 1, e3), g2 |-> SubSeq(s, d - 1, e3),
           g3 |-> SubSeq(s, e3 + 1, Len(s)) ]
ExtractAfter2(s, d, e2) == IF e2 = 0 THEN NoGroups ELSE ExtractGroups(s, d, DigitsDot(s, e2 + 2))
ExtractAfter1(s, d, e1) == IF e1 = 0 THEN NoGroups ELSE ExtractAfter2(s, d, DigitsDot(s, e1 + 2))
ExtractAt(s, d) ==
    IF d < 2 \/ d > Len(s) \/ s[d - 1] # "." THEN NoGroups
    ELSE ExtractAfter1(s, d, DigitsDot(s, d))
\* extractFilename.exec(s)
extractFilename(s) == ExtractAt(s, RunEnd(s, 1, UNION {{s[i]} : i \in 1..Len(s)} \ Digits) + 1)

\* getFilename, lines 62-101: match is null (found is FALSE) or [module,
\* intFile, version, format], module being the value of the variable module
\* at line 62.
NoMatch ==
    [ found |-> FALSE, module |-> << >>, intFile |-> << >>, version |-> << >>, format |-> << >> ]
NoNames(filename) ==
    [ has |-> FALSE, name |-> filename, module |-> << >>, version |-> << >>,
      format |-> << >>, intFile |-> << >> ]
StripDot(s) == IF StartsWith(s, << "." >>) THEN SubstringFrom(s, 1) ELSE s
ModuleAt(filename, module, idx) == IF idx # -1 THEN Substring(filename, 0, idx) ELSE module
NamesFor(filename, packageVersion, match, version) ==
    IF version = << >> \/ version # packageVersion THEN NoNames(filename)
    ELSE [ has |-> TRUE,
           name |-> filename,
           module |-> ModuleAt(filename, match.module, LastIndexOf(filename, << "." >> \o version)),
           version |-> version,
           format |-> StripDot(match.format),
           intFile |-> match.intFile \o S_integrityJson ]
NamesOf(filename, packageVersion, match) ==
    IF ~match.found \/ match.version = << >> THEN NoNames(filename)
    ELSE NamesFor(filename, packageVersion, match, StripDot(match.version))

\* Lines 29-39: "." + packageVersion was found in filename and ends at verIdx.
PackageVersionMatch(path, filename, packageVersion, verIdx) ==
    [ found |-> TRUE,
      module |-> Substring(filename, 0, verIdx),
      intFile |-> path \o << "/" >> \o Substring(filename, 0, verIdx),
      version |-> packageVersion,
      format |-> SubstringFrom(filename, verIdx + 1) ]
\* Lines 43-45: the groups of extractFilename.
RegExMatchOf(filename, groups) ==
    IF ~groups.found THEN NoMatch
    ELSE [ found |-> TRUE, module |-> filename, intFile |-> groups.g1, version |-> groups.g2,
           format |-> groups.g3 ]
\* Lines 46-58: a file without a version.
ExtensionMatch(path, filename, packageVersion, idx) ==
    IF idx = -1 THEN NoMatch
    ELSE [ found |-> TRUE,
           module |-> Substring(filename, 0, idx),
           intFile |-> path \o << "/" >> \o Substring(filename, 0, idx),
           version |-> packageVersion,
           format |-> SubstringFrom(filename, idx + 1) ]
\* Lines 28-60
MatchOf(inputFile, path, filename, packageVersion, verIdx) ==
    IF verIdx # -1
    THEN PackageVersionMatch(path, filename, packageVersion, verIdx + Len(packageVersion) + 1)
    ELSE IF isVersioned(inputFile) THEN RegExMatchOf(filename, extractFilename(inputFile))
    ELSE IF strEndsWith(filename, S_js)
         THEN ExtensionMatch(path, filename, packageVersion, IndexOf(filename, << "." >>))
    ELSE NoMatch
GetFilenameIn(inputFile, path, filename, packageVersion) ==
    NamesOf(filename, packageVersion,
            MatchOf(inputFile, path, filename, packageVersion,
                    IndexOf(filename, << "." >> \o packageVersion)))
\* Lines 14-22: pos is the position of the last "/" or, failing that, "\".
GetFilenameAt(inputFile, packageVersion, pos) ==
    IF pos # -1
    THEN GetFilenameIn(inputFile, Substring(inputFile, 0, pos),
                       SubstringFrom(inputFile, pos + 1), packageVersion)
    ELSE GetFilenameIn(inputFile, << >>, inputFile, packageVersion)
SlashPos(inputFile, pos) == IF pos = -1 THEN LastIndexOf(inputFile, << "\\" >>) ELSE pos
\* getFilename(inputFile, packageVersion)
getFilename(inputFile, packageVersion) ==
    GetFilenameAt(inputFile, packageVersion, SlashPos(inputFile, LastIndexOf(inputFile, << "/" >>)))

\* calculateHash(source, algorithm): the base64 digest, here the pair it is
\* determined by (no two sources share a digest).
calculateHash(source, algorithm) == << algorithm, source >>

\* fileDetails whose integrity string names the sha256 digest three times.
FileDetails_OneDigest(names, hash256, hash384, hash512) ==
    [ file |-> names.name,
      type |-> "text/javascript; charset=utf-8",
      integrity |-> << "sha256-", hash256, " sha384-", hash256, " sha512-", hash256 >>,
      hashes |-> [ sha256 |-> hash256, sha384 |-> hash384, sha512 |-> hash512 ] ]

\* Lines 136-143 of processPath
FileDetails(names, hash256, hash384, hash512) ==
    [ file |-> names.name,
      type |-> "text/javascript; charset=utf-8",
      integrity |-> << "sha256-", hash256, " sha384-", hash384, " sha512-", hash512 >>,
      hashes |-> [ sha256 |-> hash256, sha384 |-> hash384, sha512 |-> hash512 ] ]

\* Lines 115-126 and 133-135: the record of names.intFile, made if the cache
\* has none, with the entry "@" + format replaced by details.
NewIntegrityJson(names) == [ name |-> names.module, version |-> names.version, ext |-> << >> ]
WithDetails(cache, names, integrityJson, details) ==
    Put(cache, names.intFile,
        [ integrityJson EXCEPT !.ext = Put(integrityJson.ext, << "@" >> \o names.format, details) ])
AddFile(cache, names, details) ==
    WithDetails(cache, names,
                IF names.intFile \in DOMAIN cache THEN cache[names.intFile]
                ELSE NewIntegrityJson(names),
                details)

\* The callback of files.map that adds a file whatever the name of the
\* record it finds.
ProcessNames_AnyModule(cache, names, details) ==
    IF ~names.has THEN [ cache |-> cache, error |-> "none" ]
    ELSE IF /\ names.intFile \in DOMAIN cache
            /\ cache[names.intFile].name = names.module
            /\ names.version # << >>
            /\ cache[names.intFile].version # names.version
         THEN [ cache |-> cache, error |-> "version" ]
    ELSE [ cache |-> AddFile(cache, names, details), error |-> "none" ]

\* Lines 108-144, the callback of files.map: error is the Error thrown.
ProcessNames(cache, names, details) ==
    IF ~names.has THEN [ cache |-> cache, error |-> "none" ]
    ELSE IF names.intFile \in DOMAIN cache /\ cache[names.intFile].name # names.module
         THEN [ cache |-> cache, error |-> "module" ]
    ELSE IF /\ names.intFile \in DOMAIN cache
            /\ names.version # << >>
            /\ cache[names.intFile].version # names.version
         THEN [ cache |-> cache, error |-> "version" ]
    ELSE [ cache |-> AddFile(cache, names, details), error |-> "none" ]
ProcessFileAs(cache, names, src) ==
    ProcessNames(cache, names,
                 FileDetails(names, calculateHash(src, "sha256"), calculateHash(src, "sha384"),
                             calculateHash(src, "sha512")))
ProcessFile(cache, inputFile, version, src) ==
    ProcessFileAs(cache, getFilename(inputFile, version), src)

\* The inputs of a run: package.version and what globby finds.
\* "1.2.3"
V123 ==
    << "1", ".", "2", ".", "3" >>
\* "1.2.4"
V124 ==
    << "1", ".", "2", ".", "4" >>
PackageVersions == { V123, V124 }

\* "./browser/ai.1.2.3.js"
BF1 ==
    << ".", "/", "b", "r", "o", "w", "s", "e", "r", "/", "a", "i", ".", "1", ".", "2", ".", "3",
      ".", "j", "s" >>
\* "./browser/ai.1.2.3.min.js"
BF2 ==
    << ".", "/", "b", "r", "o", "w", "s", "e", "r", "/", "a", "i", ".", "1", ".", "2", ".", "3",
      ".", "m", "i", "n", ".", "j", "s" >>
\* "./browser/ai.1.2.3.1.2.3.js"
BF3 ==
    << ".", "/", "b", "r", "o", "w", "s", "e", "r", "/", "a", "i", ".", "1", ".", "2", ".", "3",
      ".", "1", ".", "2", ".", "3", ".", "j", "s" >>
\* "./browser/ai.1.2.4.js"
BF4 ==
    << ".", "/", "b", "r", "o", "w", "s", "e", "r", "/", "a", "i", ".", "1", ".", "2", ".", "4",
      ".", "j", "s" >>
\* "./browser/core.js"
BF5 ==
    << ".", "/", "b", "r", "o", "w", "s", "e", "r", "/", "c", "o", "r", "e", ".", "j", "s" >>
\* "./browser/v.1.2.3.x/foo.js"
BF6 ==
    << ".", "/", "b", "r", "o", "w", "s", "e", "r", "/", "v", ".", "1", ".", "2", ".", "3", ".",
      "x", "/", "f", "o", "o", ".", "j", "s" >>
\* "./browser/es5.js"
BF7 ==
    << ".", "/", "b", "r", "o", "w", "s", "e", "r", "/", "e", "s", "5", ".", "j", "s" >>
\* "./browser/ai.1.2.30.js"
BF8 ==
    << ".", "/", "b", "r", "o", "w", "s", "e", "r", "/", "a", "i", ".", "1", ".", "2", ".", "3",
      "0", ".", "j", "s" >>
BrowserFiles == << BF1, BF2, BF3, BF4, BF5, BF6, BF7, BF8 >>

\* "./snippet/snippet.js"
SF1 ==
    << ".", "/", "s", "n", "i", "p", "p", "e", "t", "/", "s", "n", "i", "p", "p", "e", "t", ".",
      "j", "s" >>
\* "./snippet/snippet.min.js"
SF2 ==
    << ".", "/", "s", "n", "i", "p", "p", "e", "t", "/", "s", "n", "i", "p", "p", "e", "t", ".",
      "m", "i", "n", ".", "j", "s" >>

\* The most files globby finds under ./browser.
MaxBrowserFiles == 2
\* What globby.sync returns: distinct files, in some order.
FileLists(files, n) ==
    { l \in UNION { [1..k -> 1..Len(files)] : k \in 0..n } :
        \A i \in DOMAIN l : \A j \in DOMAIN l : i # j => l[i] # l[j] }
Named(files, l) == [ i \in DOMAIN l |-> files[l[i]] ]
BrowserLists == { Named(BrowserFiles, l) : l \in FileLists(BrowserFiles, MaxBrowserFiles) }
SnippetLists == { << >>, << SF1 >>, << SF2, SF1 >> }
\* What fs.readFileSync returns for a file.
Sources == { "src1", "src2" }

\* The list processPath is mapping over.
IgFiles == IF igPc = "browser" THEN igBrowser ELSE igSnippet

IgStep(names, r, src) ==
    /\ igLast' = [ file |-> IgFiles[igIdx], names |-> names, prior |-> integrityCache ]
    /\ igRead' = IF names.has THEN Put(igRead, IgFiles[igIdx], src) ELSE igRead
    /\ integrityCache' = r.cache
    /\ igError' = r.error
    /\ igPc' = IF r.error # "none" THEN "threw" ELSE igPc
    /\ igIdx' = igIdx + 1
    /\ UNCHANGED << igBrowser, igSnippet, igVersion, igWritten >>
    /\ UNCHANGED otherThanIntegrity

\* One turn of files.map in processPath(integrityCache, path, version): the
\* file is read only if getFilename gave it an intFile.
processFile ==
    /\ igPc \in {"browser", "snippet"}
    /\ igIdx <= Len(IgFiles)
    /\ \E src \in Asked(getFilename(IgFiles[igIdx], igVersion).has, Sources) :
           IgStep(getFilename(IgFiles[igIdx], igVersion),
                  ProcessFile(integrityCache, IgFiles[igIdx], igVersion, src), src)

\* processPath returns: lines 152-153 go on to ./snippet, then to the writes.
processPathReturns ==
    /\ igPc \in {"browser", "snippet"}
    /\ igIdx > Len(IgFiles)
    /\ igPc' = IF igPc = "browser" THEN "snippet" ELSE "write"
    /\ igIdx' = 1
    /\ UNCHANGED << igBrowser, igSnippet, igVersion, integrityCache, igError, igLast, igRead,
                    igWritten >>
    /\ UNCHANGED otherThanIntegrity

\* Lines 155-158: every record of the cache is written to its intFile.
writeIntegrityFiles ==
    /\ igPc = "write"
    /\ igWritten' = { [ file |-> name, json |-> integrityCache[name] ] :
                        name \in DOMAIN integrityCache }
    /\ igPc' = "done"
    /\ UNCHANGED << igBrowser, igSnippet, igVersion, integrityCache, igIdx, igError, igLast,
                    igRead >>
    /\ UNCHANGED otherThanIntegrity

\* Lines 149-151: an empty cache, package.json read.
IgFresh ==
    /\ integrityCache = << >>
    /\ igIdx = 1
    /\ igError = "none"
    /\ igLast = [ file |-> << >>, names |-> NoNames(<< >>), prior |-> << >> ]
    /\ igRead = << >>
    /\ igWritten = {}
InitIntegrity ==
    /\ igVersion \in PackageVersions
    /\ igBrowser \in BrowserLists
    /\ igSnippet \in SnippetLists
    /\ igPc = "browser"
    /\ IgFresh

\* No build is running.
IdleIntegrity ==
    /\ igVersion = V123
    /\ igBrowser = << >>
    /\ igSnippet = << >>
    /\ igPc = "idle"
    /\ IgFresh

NextIntegrity ==
    \/ processFile
    \/ processPathReturns
    \/ writeIntegrityFiles

----------------------------------------------------------------------------
(* UrlHelper.parseFullHost called on its own.                              *)

\* The urls passed: scheme, separator, host, port and path put together.
PfUrls ==
    [ scheme : { << >>, S_http, S_https, << "H", "T", "T", "P" >>, << "f", "t", "p" >> },
      sep    : { << >>, << ":" >>, S_schemeSep },
      host   : { << >>, << "a" >>, HostAB, S_www \o << "." >> \o HostAB },
      port   : { << >>, S_port80, S_port443, << ":", "8", "0", "8", "0" >> },
      path   : { << >>, << "/", "p" >> } ]
PfUrl(p) == p.scheme \o p.sep \o p.host \o p.port \o p.path

\* A call of UrlHelper.parseFullHost(url, inclPort)
CallParseFullHost ==
    /\ pfPc = "call"
    /\ pfRet' = parseFullHost(PfUrl(pfParts), pfInclPort)
    /\ pfPc' = "done"
    /\ UNCHANGED << pfParts, pfInclPort >>
    /\ UNCHANGED otherThanParse

InitParse ==
    /\ pfParts \in PfUrls
    /\ pfInclPort \in BOOLEAN
    /\ pfPc = "call"
    /\ pfRet = Null

\* No call of parseFullHost on its own is under way.
IdleParse ==
    /\ pfParts = [ scheme |-> << >>, sep |-> << >>, host |-> << >>, port |-> << >>, path |-> << >> ]
    /\ pfInclPort = FALSE
    /\ pfPc = "idle"
    /\ pfRet = Null

NextParse == CallParseFullHost

----------------------------------------------------------------------------
(* Specifications: one per component, the other components idle.           *)

StartStorage == InitStorage /\ IdleCookie /\ IdleUrl /\ IdleCorr /\ IdleIntegrity /\ IdleParse
SpecStorage == StartStorage /\ [][NextStorage]_vars

StartCookie == InitStorage /\ InitCookie /\ IdleUrl /\ IdleCorr /\ IdleIntegrity /\ IdleParse
SpecCookie == StartCookie /\ [][NextCookie]_vars

StartUrl == InitStorage /\ IdleCookie /\ InitUrl /\ IdleCorr /\ IdleIntegrity /\ IdleParse
SpecUrl == StartUrl /\ [][NextUrl]_vars

StartCorr == InitStorage /\ IdleCookie /\ InitUrl /\ InitCorr /\ IdleIntegrity /\ IdleParse
SpecCorr == StartCorr /\ [][NextCorr]_vars

StartIntegrity == InitStorage /\ IdleCookie /\ IdleUrl /\ IdleCorr /\ InitIntegrity /\ IdleParse
SpecIntegrity == StartIntegrity /\ [][NextIntegrity]_vars

StartParse ==
    InitStorage /\ IdleCookie /\ IdleUrl /\ IdleCorr /\ IdleIntegrity /\ InitParse
SpecParse == StartParse /\ [][NextParse]_vars

----------------------------------------------------------------------------
(* Claims about the storage helpers.                                       *)

LocalAccessors == {"getStorage", "setStorage", "removeStorage"}
SessionAccessors == {"getSessionStorage", "setSessionStorage", "removeSessionStorage"}
Getters == {"getStorage", "getSessionStorage"}

\* C1: when the getItem / setItem / removeItem call of one of the six storage
\* accessors throws, no exception leaves the accessor, it returns null (get)
\* or false (set, remove), and the capability flag of that storage is false
\* afterwards.
C1_StorageFailureIsLocal ==
    (stCallThrew /\ stOp \in LocalAccessors \cup SessionAccessors) =>
        /\ ~stPropagated
        /\ stRet = (IF stOp \in Getters THEN "null" ELSE "false")
        /\ (stOp \in LocalAccessors => _canUseLocalStorage = "false")
        /\ (stOp \in SessionAccessors => _canUseSessionStorage = "false")

\* C1 witness: removeItem threw inside removeSessionStorage, on a storage
\* object that had passed verification, and the failure was logged.
C1_Witness ==
    /\ stOp = "removeSessionStorage"
    /\ stCallThrew
    /\ stUsable
    /\ stLogged = "BrowserFailedRemovalFromSessionStorage"

\* C6: once disableStorage() has been called, both canUse... calls return
\* false, the getters return null, set and remove return false,
\* getSessionStorageKeys returns no key, and no operation reaches for the
\* browser's localStorage or sessionStorage object.
C6_DisabledStorageStaysOff ==
    stDisabled =>
        /\ _canUseLocalStorage = "false"
        /\ _canUseSessionStorage = "false"
        /\ ~stTouched
        /\ ~stPropagated
        /\ (stOp \in {"canUseLocalStorage", "canUseSessionStorage"} => stRet = "false")
        /\ (stOp \in Getters => stRet = "null")
        /\ (stOp \in (LocalAccessors \cup SessionAccessors) \ Getters => stRet = "false")
        /\ (stOp = "getSessionStorageKeys" => stRet = "keys" /\ stData = {})

\* C6 witness: storage was in use (a value is stored), disableStorage() was
\* called, and a later getSessionStorage found nothing.
C6_Witness ==
    /\ stDisabled
    /\ stOp = "getSessionStorage"
    /\ \E k \in ItemKeys : sessionStorage[k] # 0

----------------------------------------------------------------------------
(* Claims about the cookie helpers.                                        *)

\* C9: setCookie assigns document.cookie only when cookies are usable; the
\* string it assigns contains ";secure" exactly when the page protocol is
\* "https:", and contains ";SameSite=None" exactly when the protocol is
\* "https:" and the user agent does not disallow SameSite=None.
C9_CookieAttributes ==
    ckOp = "setCookie" =>
        /\ (ckWrote <=> (_canUseCookies = "true" /\ ckRet = "true"))
        /\ ckWrote =>
            /\ (IndexOf(documentCookie, S_secure) # -1) <=> (locationProtocol = "https:")
            /\ (IndexOf(documentCookie, S_SameSiteNone) # -1) <=>
                   /\ locationProtocol = "https:"
                   /\ ~disallowsSameSiteNone(UserAgentOf(navigatorUA))

\* C9 witness: a cookie written on an https page of a browser that disallows
\* SameSite=None carries ";secure" and no ";SameSite=None".
C9_Witness ==
    /\ ckOp = "setCookie"
    /\ ckWrote
    /\ locationProtocol = "https:"
    /\ disallowsSameSiteNone(UserAgentOf(navigatorUA))
    /\ strEndsWith(documentCookie, S_secure)
    /\ IndexOf(documentCookie, S_SameSiteNone) = -1

----------------------------------------------------------------------------
(* Claims about UrlHelper.parseUrl.                                        *)

\* C10: the anchor one parseUrl call returns is not the object any of the
\* next 4 calls returns, so it keeps the href of its own URL until the 5th
\* later call; the cache index stays within 0..4 and moves on by one, wrapping
\* to 0, with every call, with and without document.createElement.
C10_AnchorsOutstanding ==
    /\ _htmlAnchorIdx \in 0..(AnchorCacheSize - 1)
    /\ _htmlAnchorIdx = Len(urlCalls) % AnchorCacheSize
    /\ \A i \in 1..Len(urlCalls) : \A j \in 1..Len(urlCalls) :
           (i < j /\ j - i <= AnchorCacheSize - 1) => urlCalls[i].obj # urlCalls[j].obj
    /\ \A i \in 1..Len(urlCalls) :
           Len(urlCalls) - i <= AnchorCacheSize - 1 =>
               anchorHeap[urlCalls[i].obj].href = urlCalls[i].url

\* C10 witness: with document.createElement, six calls were made; the sixth
\* returned the anchor of the first, now holding another URL.
C10_Witness ==
    /\ browser # "none"
    /\ Len(urlCalls) = AnchorCacheSize + 1
    /\ urlCalls[AnchorCacheSize + 1].obj = urlCalls[1].obj
    /\ urlCalls[AnchorCacheSize + 1].url # urlCalls[1].url
    /\ _htmlAnchorIdx = 1

----------------------------------------------------------------------------
(* Claims about canIncludeCorrelationHeader.                               *)

\* The host parseUrl(requestUrl) reports for the call under way, and the
\* requestHost the function derives from it.
CorrAnchorHost ==
    IF browser = "none" THEN parseHost(Urls[corrUrl], TRUE)
    ELSE AnchorHost(Urls[corrUrl], browser, pageHost)
CorrRequestHost == RequestHost(CorrAnchorHost, Urls[corrUrl])

CorrDisabled == ~corrConfig.isNull /\ corrConfig.disableCorrelationHeaders
CorrPatternHit ==
    /\ ~corrConfig.isNull
    /\ corrConfig.correlationHeaderExcludePatterns.present
    /\ SomePatternMatches(corrConfig.correlationHeaderExcludePatterns, Urls[corrUrl])
CorrIncludedMiss(host) ==
    /\ ~corrConfig.isNull
    /\ corrConfig.correlationHeaderDomains.present
    /\ ~SomeDomainMatches(corrConfig.correlationHeaderDomains, host)
CorrExcludedHit(host) ==
    /\ ~corrConfig.isNull
    /\ corrConfig.correlationHeaderExcludedDomains.present
    /\ SomeDomainMatches(corrConfig.correlationHeaderExcludedDomains, host)
CorrCors == ~corrConfig.isNull /\ corrConfig.enableCorsCorrelation

C3_ReturnsBoolean ==
    corrPc = "done" => corrRet \in {"true", "false"}

----------------------------------------------------------------------------
(* Claims about generateIntegrityFile.js.                                  *)

\* The file processed last resolved to a record the cache already held.
IgHit == igLast.names.has /\ igLast.names.intFile \in DOMAIN igLast.prior
IgPrior == igLast.prior[igLast.names.intFile]

\* A file that resolves to a cached record of another module name makes
\* processPath throw: the cache stays as it was and nothing is written; and
\* the module error is thrown in that case only.
IgModuleMismatchThrows ==
    /\ (IgHit /\ IgPrior.name # igLast.names.module) =>
           /\ igPc = "threw"
           /\ igError = "module"
           /\ integrityCache = igLast.prior
           /\ igWritten = {}
    /\ igError = "module" => (IgHit /\ IgPrior.name # igLast.names.module)

\* The Error a run over files throws, "none" if it throws none.
RECURSIVE IgRunError(_, _, _, _)
IgRunError(cache, files, i, version) ==
    IF i > Len(files) THEN "none"
    ELSE IF ProcessFile(cache, files[i], version, "src1").error # "none"
         THEN ProcessFile(cache, files[i], version, "src1").error
    ELSE IgRunError(ProcessFile(cache, files[i], version, "src1").cache, files, i + 1, version)
IgRunErrors ==
    { IgRunError(<< >>, b \o s, 1, v) : b \in BrowserLists, s \in SnippetLists, v \in PackageVersions }

\* C4 as stated: a file that resolves to a cached record with another module
\* name or another version makes processPath throw instead of adding the
\* file, and both the module error and the version error are thrown for some
\* file names and package version.
C4_BothMismatchesReachable ==
    /\ IgModuleMismatchThrows
    /\ (IgHit /\ IgPrior.version # igLast.names.version) => igError = "version"
    /\ "module" \in IgRunErrors
    /\ "version" \in IgRunErrors

\* C4 amended: a file that resolves to a cached record with another module
\* name makes processPath throw instead of adding the file, and nothing is
\* written; a record of another version is never met, because every file
\* that resolves and every cached record carries package.version, so the
\* version error is never thrown.
C4_ModuleMismatchThrows ==
    /\ IgModuleMismatchThrows
    /\ igError # "version"
    /\ igLast.names.has => igLast.names.version = igVersion
    /\ \A k \in DOMAIN integrityCache : integrityCache[k].version = igVersion
    /\ IgHit => IgPrior.version = igLast.names.version

\* C4 witness: the second file found resolved to the record of the first
\* under another module name, and the run ended with the module error.
C4_Witness ==
    /\ igPc = "threw"
    /\ igError = "module"
    /\ igIdx = 3
    /\ IgHit
    /\ IgPrior.name # igLast.names.module
    /\ IgPrior.version = igLast.names.version

\* The files read that resolved to the record written as file.
IgFilesOf(file) ==
    { f \in DOMAIN igRead : getFilename(f, igVersion).intFile = file }
IgEntryOf(f, src) ==
    [ file |-> getFilename(f, igVersion).name,
      type |-> "text/javascript; charset=utf-8",
      integrity |-> << "sha256-", calculateHash(src, "sha256"),
                       " sha384-", calculateHash(src, "sha384"),
                       " sha512-", calculateHash(src, "sha512") >>,
      hashes |-> [ sha256 |-> calculateHash(src, "sha256"),
                   sha384 |-> calculateHash(src, "sha384"),
                   sha512 |-> calculateHash(src, "sha512") ] ]

\* C5: every record written has the module name of its files as name and
\* package.version as version, and one entry for each format of its files;
\* an entry carries the name of a file of that format, the sha256, sha384
\* and sha512 digests of that file's content, and the integrity string
\* 'sha256-<h256> sha384-<h384> sha512-<h512>' of those same digests.
C5_WrittenRecords ==
    \A w \in igWritten :
        /\ IgFilesOf(w.file) # {}
        /\ \A f \in IgFilesOf(w.file) : w.json.name = getFilename(f, igVersion).module
        /\ w.json.version = igVersion
        /\ DOMAIN w.json.ext =
               { << "@" >> \o getFilename(f, igVersion).format : f \in IgFilesOf(w.file) }
        /\ \A fmt \in DOMAIN w.json.ext :
               /\ \E f \in IgFilesOf(w.file) :
                      /\ << "@" >> \o getFilename(f, igVersion).format = fmt
                      /\ w.json.ext[fmt] = IgEntryOf(f, igRead[f])
               /\ w.json.ext[fmt].integrity =
                      << "sha256-", w.json.ext[fmt].hashes.sha256,
                         " sha384-", w.json.ext[fmt].hashes.sha384,
                         " sha512-", w.json.ext[fmt].hashes.sha512 >>

\* C5 witness: a finished run wrote a record with two formats whose files
\* have different contents, and a second record.
C5_Witness ==
    /\ igPc = "done"
    /\ Cardinality(igWritten) = 2
    /\ \E w \in igWritten :
           /\ Cardinality(DOMAIN w.json.ext) = 2
           /\ \E f \in IgFilesOf(w.file) : \E g \in IgFilesOf(w.file) : igRead[f] # igRead[g]

----------------------------------------------------------------------------
(* Further claims about the storage helpers of Util.                       *)

Writers == {"setStorage", "removeStorage", "setSessionStorage", "removeSessionStorage"}

\* C11: setStorage, removeStorage, setSessionStorage and removeSessionStorage
\* return true exactly when their setItem / removeItem call was made on a
\* storage object that had passed verification and the call did not throw
\* (the flag of that storage is then true); getStorage returns null whenever
\* it got no verified storage object.
C11_TrueIffCallSucceeded ==
    /\ stOp \in Writers =>
           /\ stRet \in {"true", "false"}
           /\ (stRet = "true") <=> (stUsable /\ ~stCallThrew)
           /\ stCallThrew => stUsable
    /\ (stOp \in {"setStorage", "removeStorage"} /\ stRet = "true") =>
           _canUseLocalStorage = "true"
    /\ (stOp \in {"setSessionStorage", "removeSessionStorage"} /\ stRet = "true") =>
           _canUseSessionStorage = "true"
    /\ (stOp = "getStorage" /\ ~stUsable) => (stRet = "null" /\ stData = {})
    /\ (stOp = "getStorage" /\ _canUseLocalStorage # "true") => stRet = "null"

\* C11 witness: setStorage wrote an item on a verified localStorage and
\* returned true.
C11_Witness ==
    /\ stOp = "setStorage"
    /\ stRet = "true"
    /\ stUsable
    /\ ~stCallThrew
    /\ \E k \in ItemKeys : localStorage[k] # 0

----------------------------------------------------------------------------
(* Claims about UrlHelper.parseFullHost.                                   *)

\* The url passed has a '<scheme>://<host>' part.
PfAbsolute == pfParts.scheme # << >> /\ pfParts.sep = S_schemeSep /\ pfParts.host # << >>
\* The port parseFullHost is to append: none for the default port of the
\* protocol, compared without regard to case.
PfPortKept ==
    IF \/ toLowerCase(pfParts.scheme) = S_http /\ pfParts.port = S_port80
       \/ toLowerCase(pfParts.scheme) = S_https /\ pfParts.port = S_port443
    THEN << >> ELSE pfParts.port

\* C12: parseFullHost returns the host of an absolute url and null for an
\* empty url or one without a '<scheme>://<host>' part; without inclPort the
\* result holds no port, with inclPort the port follows the host unless it
\* is ':80' under http or ':443' under https.
C12_HostOfAbsoluteUrl ==
    pfPc = "done" =>
        /\ PfAbsolute =>
               pfRet = (IF pfInclPort THEN pfParts.host \o PfPortKept ELSE pfParts.host)
        /\ (pfParts.sep # S_schemeSep \/ pfParts.host = << >>) => pfRet = Null
        /\ (~pfInclPort /\ pfRet # Null) => IndexOf(pfRet, << ":" >>) = -1

----------------------------------------------------------------------------
(* Claims about Util.disallowsSameSiteNone.                                *)

\* The number a run of digits writes.
DigitChars == << "0", "1", "2", "3", "4", "5", "6", "7", "8", "9" >>
DigitVal(c) == (CHOOSE i \in 1..10 : DigitChars[i] = c) - 1
RECURSIVE NumberOf(_)
NumberOf(s) ==
    IF s = << >> THEN 0
    ELSE 10 * NumberOf(SubSeq(s, 1, Len(s) - 1)) + DigitVal(s[Len(s)])

\* The major version a user agent advertises after "Chrome/", -1 if none;
\* at is the 0-based position of "Chrome/".
ChromeMajorAt(ua, at) ==
    IF at = -1 \/ RunEnd(ua, at + 8, Digits) < at + 8 THEN -1
    ELSE NumberOf(SubSeq(ua, at + 8, RunEnd(ua, at + 8, Digits)))
ChromeMajor(ua) == ChromeMajorAt(ua, IndexOf(ua, S_Chrome \o << "/" >>))

\* The user agent falls under the iOS 12, Mac OS X 10_14, Unreal Engine or
\* UCBrowser rule.
OtherRule(ua) ==
    \/ IndexOf(ua, S_iPhoneOS12) # -1
    \/ IndexOf(ua, S_iPadOS12) # -1
    \/ IndexOf(ua, S_MacOS1014) # -1 /\ IndexOf(ua, S_Version) # -1 /\ IndexOf(ua, S_Safari) # -1
    \/ IndexOf(ua, S_MacOS1014) # -1 /\ strEndsWith(ua, S_WebKitTail)
    \/ IndexOf(ua, S_UnrealEngine) # -1 /\ IndexOf(ua, S_Chrome) = -1
    \/ IndexOf(ua, S_UCBrowser12) # -1
    \/ IndexOf(ua, S_UCBrowser11) # -1

\* C13: disallowsSameSiteNone returns false for an input that is no string,
\* and for a user agent under none of the iOS 12, Mac OS X 10_14, Unreal
\* Engine and UCBrowser rules it returns true exactly when the user agent
\* advertises a Chrome major version from 50 to 69. (Seen where setCookie
\* has stored the result for the page's user agent.)
C13_ChromeRange ==
    (ckOp = "setCookie" /\ ckWrote /\ locationProtocol = "https:") =>
        /\ navigatorUA = 0 => _uaDisallowsSameSiteNone = "false"
        /\ (navigatorUA # 0 /\ ~OtherRule(UserAgents[navigatorUA])) =>
               ((_uaDisallowsSameSiteNone = "true") <=>
                    (ChromeMajor(UserAgents[navigatorUA]) \in 50..69))

----------------------------------------------------------------------------
(* Claims about the storage capability flags.                              *)

\* C14: once _canUseLocalStorage or _canUseSessionStorage is false it stays
\* false, neither flag ever goes back to undefined, and each flag is
\* assigned from a storage probe at most once, and only while it is
\* undefined.
C14_FlagsMonotone ==
    [][ /\ _canUseLocalStorage = "false" => _canUseLocalStorage' = "false"
        /\ _canUseSessionStorage = "false" => _canUseSessionStorage' = "false"
        /\ _canUseLocalStorage # "undefined" => _canUseLocalStorage' # "undefined"
        /\ _canUseSessionStorage # "undefined" => _canUseSessionStorage' # "undefined"
        /\ localEvals' # localEvals =>
               (_canUseLocalStorage = "undefined" /\ localEvals = 0 /\ localEvals' = 1)
        /\ sessionEvals' # sessionEvals =>
               (_canUseSessionStorage = "undefined" /\ sessionEvals = 0 /\ sessionEvals' = 1)
      ]_vars

\* C14 witness: the first verification of localStorage failed when getItem
\* threw (the probe value stayed behind), and a later canUseLocalStorage
\* answered false without reaching for localStorage again.
C14_Witness ==
    /\ _canUseLocalStorage = "false"
    /\ localEvals = 1
    /\ ~stDisabled
    /\ localStorage[UidKey] = 1
    /\ stOp = "canUseLocalStorage"
    /\ stRet = "false"
    /\ ~stTouched

----------------------------------------------------------------------------
(* Claims about the domain lists of canIncludeCorrelationHeader.           *)

\* A domain entry read as a glob: '*' is any sequence of characters, every
\* other character, '.' included, stands for itself.
RECURSIVE NewGlob(_)
NewGlob(domain) ==
    IF domain = << >> THEN << >>
    ELSE (IF domain[1] = "*" THEN << AnyStar >> ELSE << Lit(domain[1]) >>)
             \o NewGlob(Tail(domain))
SomeGlobMatches(list, host) ==
    \E i \in 1..Len(list.items) : RegExpTest(NewGlob(toLowerCase(list.items[i])), host)

\* C15: the entries of correlationHeaderDomains and of
\* correlationHeaderExcludedDomains are matched against the request host as
\* globs in which '.' is a literal dot: a request is included only if an
\* entry of a given correlationHeaderDomains matches so, and it is refused
\* by the excluded domains only if one of them matches so.
C15_DotIsLiteral ==
    (corrPc = "done" /\ CorrAnchorHost # Null) =>
        /\ (corrRet = "true" /\ ~corrConfig.isNull /\ corrConfig.correlationHeaderDomains.present)
               => SomeGlobMatches(corrConfig.correlationHeaderDomains, CorrRequestHost)
        /\ ( /\ corrRet = "false"
             /\ Urls[corrUrl] # << >>
             /\ ~CorrDisabled
             /\ ~CorrPatternHit
             /\ (CorrCors \/ CorrRequestHost = corrCurrentHost)
             /\ ~CorrIncludedMiss(CorrRequestHost) )
               => /\ ~corrConfig.isNull
                  /\ corrConfig.correlationHeaderExcludedDomains.present
                  /\ SomeGlobMatches(corrConfig.correlationHeaderExcludedDomains, CorrRequestHost)

====
